---------------------------- MODULE Spec2Model ----------------------------
(***************************************************************************)
(* Track handlers of libdisk: the Rob Northen CopyLock protection track    *)
(* (copylock.c) and the "ego" family of checksummed single-block tracks    *)
(* with the Za Zelazna Brama boot-track companion (ego.c).                 *)
(*                                                                         *)
(* Fixed-width C integers are kept below 2^31: a uint32_t is a pair        *)
(* <<hi, lo>> of 16-bit halves, a bit-cell buffer is a sequence of 16-cell *)
(* words (most significant cell first).  Loops are unrolled by halving so  *)
(* that evaluation depth stays logarithmic in the trip count.              *)
(***************************************************************************)
EXTENDS Integers, Sequences, FiniteSets, TLC

VARIABLES
    disk,     \* the format of the disk the tracks belong to
    pc,       \* control location of the handler call in progress
    ti,       \* struct track_info of the track being processed
    tbuf,     \* track buffer written by read_raw: [cells, runs]
    enc,      \* locals of copylock_read_raw / ego_read_raw
    s,        \* struct stream read by write_raw
    dec,      \* locals of copylock_write_raw / ego_write_raw
    warns,    \* warnings passed to trk_warn, in order
    result,   \* what write_raw returned: nothing yet, NULL or a block of bytes
    tag,      \* disk tag DSKTAG_za_zelazna_brama_protection: absent, or [len, words]
    probe     \* history: the LFSR operations applied / the first boot decode

vars == <<pc, disk, ti, tbuf, enc, s, dec, warns, result, tag, probe>>

\* The values of `result`: nothing returned yet, return NULL, return a block.
NoResult == [ret |-> "none", dat |-> <<>>]
Null == [ret |-> "NULL", dat |-> <<>>]
Block(b) == [ret |-> "block", dat |-> b]

\* The disk tag DSKTAG_za_zelazna_brama_protection: absent, or len bytes of
\* 16-bit words.
NoTag == [set |-> FALSE, len |-> 0, protection |-> <<>>]

-----------------------------------------------------------------------------
(* Bit arithmetic on naturals below 2^31.                                   *)

Bit(x, n) == (x \div (2^n)) % 2

U16(x) == x % 65536

\* x | (1u << n)
SetBit(x, n) == x + (1 - Bit(x, n)) * (2^n)

U8(x) == x % 256

RECURSIVE XorBits(_, _, _)
XorBits(a, b, n) ==
    IF n = 0 THEN 0
    ELSE ((a + b) % 2) + 2 * XorBits(a \div 2, b \div 2, n - 1)

\* A uint32_t as <<hi, lo>>.
U32(hi, lo) == <<hi, lo>>

Xor32(a, b) == <<XorBits(a[1], b[1], 16), XorBits(a[2], b[2], 16)>>

Ror32(a) == <<(a[1] \div 2) + 32768 * (a[2] % 2), (a[2] \div 2) + 32768 * (a[1] % 2)>>

\* be32toh of four bytes of memory, and htobe32 back to memory.
be32toh(m) == <<m[1] * 256 + m[2], m[3] * 256 + m[4]>>

htobe32(v) == <<v[1] \div 256, v[1] % 256, v[2] \div 256, v[2] % 256>>

-----------------------------------------------------------------------------
(* copylock.c: tables and the 23-bit LFSR.                                  *)

sync_list == <<35473, 35396, 35397, 35409, 35090, 35089,
               35092, 35093, 35140, 35141, 35153>>

sec6_sig == <<82, 111, 98, 32, 78, 111, 114, 116,
              104, 101, 110, 32, 67, 111, 109, 112>>

\* The backward step with the feedback taps of the forward step (bits 22, 0).
lfsr_prev_state_fwd_taps(x) ==
    (x \div 2) + ((((x \div 4194304) + x) % 2) * 4194304)

lfsr_prev_state(x) ==
    (x \div 2) + ((((x \div 2) + x) % 2) * 4194304)

lfsr_next_state(x) ==
    ((x * 2) % 8388608) + (((x \div 4194304) + x) % 2)

\* The state byte taken one bit too high (x >> 16).
lfsr_state_byte_shift16(x) == U8(x \div 65536)

lfsr_state_byte(x) == U8(x \div 32768)

\* while (sz--) x = (from < to) ? lfsr_next_state(x) : lfsr_prev_state(x);
RECURSIVE lfsr_walk(_, _, _)
lfsr_walk(x, sz, fwd) ==
    IF x < 0 \/ sz = 0 THEN x
    ELSE IF sz = 1 THEN (IF fwd THEN lfsr_next_state(x) ELSE lfsr_prev_state(x))
    ELSE lfsr_walk(lfsr_walk(x, sz \div 2, fwd), sz - (sz \div 2), fwd)

\* The steps walked over a sector with no allowance for the old variant.
lfsr_seek_sz_one_variant(type, from) ==
    512 - (IF from = 6 THEN Len(sec6_sig) ELSE 0)

\* Steps walked over sector `from` (after the decrement of a backward walk).
lfsr_seek_sz(type, from) ==
    512 - (IF from = 6 THEN Len(sec6_sig) ELSE 0)
        + (IF type = "copylock_old" /\ from = 5 THEN Len(sec6_sig) ELSE 0)

\* lfsr_seek with the size of a backward walk taken before `from` is
\* decremented.
RECURSIVE lfsr_seek_size_before_decrement(_, _, _, _)
lfsr_seek_size_before_decrement(type, x, from, to) ==
    IF x < 0 \/ from = to THEN x
    ELSE LET f1 == IF from > to THEN from - 1 ELSE from
             x1 == lfsr_walk(x, lfsr_seek_sz(type, from), f1 < to)
         IN lfsr_seek_size_before_decrement(type, x1, IF f1 < to THEN f1 + 1 ELSE f1, to)

RECURSIVE lfsr_seek(_, _, _, _)
lfsr_seek(type, x, from, to) ==
    IF x < 0 \/ from = to THEN x
    ELSE LET f1 == IF from > to THEN from - 1 ELSE from
             x1 == lfsr_walk(x, lfsr_seek_sz(type, f1), f1 < to)
         IN lfsr_seek(type, x1, IF f1 < to THEN f1 + 1 ELSE f1, to)

-----------------------------------------------------------------------------
(* MFM codec (libdisk/util): a data bit is a clock cell followed by a data  *)
(* cell; the clock cell is set where both neighbouring data bits are zero.  *)

\* The 16 cells that encode the 8 data bits of b after previous data bit p.
RECURSIVE mfm_encode_byte(_, _, _)
mfm_encode_byte(b, n, p) ==
    IF n = 0 THEN 0
    ELSE LET d == Bit(b, n - 1)
             c == IF d = 0 /\ p = 0 THEN 1 ELSE 0
         IN (2 * c + d) * (4^(n - 1)) + mfm_encode_byte(b, n - 1, d)

\* mfm_encode_word: 16 data bits to 32 cells.  copylock.c compares its result
\* with the whole 32-bit s->word and emits its low 16 cells.
mfm_encode_word(w) ==
    LET hi == w \div 256
        lo == w % 256
    IN U32(mfm_encode_byte(hi, 8, 0), mfm_encode_byte(lo, 8, hi % 2))

\* The 8 data bits held by 16 cells (MFM_all: the cells at even bit numbers).
RECURSIVE mfm_decode_cells(_, _)
mfm_decode_cells(w, n) ==
    IF n = 0 THEN 0
    ELSE Bit(w, 2 * (n - 1)) * (2^(n - 1)) + mfm_decode_cells(w, n - 1)

\* mfm_decode_bits(MFM_all, x) of a 32-cell word: its 16 data bits.
mfm_decode_bits(x) ==
    mfm_decode_cells(x[1], 8) * 256 + mfm_decode_cells(x[2], 8)

\* Bits 1,3,..,15 and bits 0,2,..,14 of a 16-bit value, as a byte.
OddBits(h) == mfm_decode_cells(h \div 2, 8)

EvenBits(h) == mfm_decode_cells(h, 8)

-----------------------------------------------------------------------------
(* Track buffer writer (libdisk/tbuf): cells in 16-cell words, and the      *)
(* speed of the cells as runs <<speed, number of words>>.                   *)

\* Nominal speed ("1.000"): the encoder keeps speeds in a uint16_t.
SPEED_AVG == 1000

EmptyTbuf == [cells |-> <<>>, runs |-> <<>>]

PrevBit(tb) == IF tb.cells = <<>> THEN 0 ELSE tb.cells[Len(tb.cells)] % 2

AddRun(runs, speed, n) ==
    IF runs # <<>> /\ runs[Len(runs)][1] = speed
    THEN [runs EXCEPT ![Len(runs)] = <<speed, runs[Len(runs)][2] + n>>]
    ELSE Append(runs, <<speed, n>>)

\* The data bytes, in emission order, of n bits of x = <<hi, lo>> under a mode.
DataBytes(mode, n, x) ==
    IF mode = "odd_even"
    THEN <<OddBits(x[1]), OddBits(x[2]), EvenBits(x[1]), EvenBits(x[2])>>
    ELSE IF n = 8 THEN <<x[2] % 256>>
    ELSE IF n = 16 THEN <<x[2] \div 256, x[2] % 256>>
    ELSE <<x[1] \div 256, x[1] % 256, x[2] \div 256, x[2] % 256>>

RECURSIVE MfmWords(_, _, _)
MfmWords(bytes, k, p) ==
    IF k > Len(bytes) THEN <<>>
    ELSE <<mfm_encode_byte(bytes[k], 8, p)>> \o MfmWords(bytes, k + 1, bytes[k] % 2)

\* tbuf_bits(tbuf, speed, mode, n, x): mode "raw" appends the low 16 cells of x.
tbuf_bits(tb, speed, mode, n, x) ==
    LET w == IF mode = "raw" THEN <<x[2]>>
             ELSE MfmWords(DataBytes(mode, n, x), 1, PrevBit(tb))
    IN [cells |-> tb.cells \o w, runs |-> AddRun(tb.runs, speed, Len(w))]

\* tbuf_gap(tbuf, speed, bits): `bits` zero data bits, MFM encoded.
tbuf_gap(tb, speed, bits) ==
    LET n == bits \div 8
        w == [k \in 1..n |-> IF k = 1 THEN mfm_encode_byte(0, 8, PrevBit(tb)) ELSE 43690]
    IN [cells |-> tb.cells \o w, runs |-> AddRun(tb.runs, speed, n)]

-----------------------------------------------------------------------------
(* Bounds of the model and the inputs drawn within them.                    *)

\* Number of non-zero sample seeds the CopyLock payload is drawn from.
NSeeds == 2

\* The k-th sample seed: non-zero 23-bit values spread over the state space.
SeedOf(k) == ((k * 1193046) + (k - 1) * 4660) % 8388608

Seeds == {SeedOf(k) : k \in 1..NSeeds}

CopylockTypes == {"copylock", "copylock_old"}

\* struct track_handler copylock_handler / copylock_old_handler.
copylock_handler == [bytes_per_sector |-> 512, nr_sectors |-> 11]

\* A uint32_t below 2^31 as a number, and back.
Num32(v) == v[1] * 65536 + v[2]

Pair32(n) == U32(n \div 65536, n % 65536)

-----------------------------------------------------------------------------
(* copylock_read_raw: one action per iteration of its sector loop.          *)

\* The inner loop of lines 252-253 emitting nothing.
sec6_sig_skip(tb, speed) == tb

\* for (i = 0; i < 512; i++) { signature at sector 6; one LFSR byte }
sec6_sig_emit(tb, speed) ==
    LET RECURSIVE sig(_, _)
        sig(t, i) == IF i > Len(sec6_sig) THEN t
                     ELSE sig(tbuf_bits(t, speed, "all", 8, U32(0, sec6_sig[i])), i + 1)
    IN sig(tb, 1)

data_iter(st, sec, speed) ==
    LET st1 == IF sec = 6 /\ st.i = 0
               THEN [st EXCEPT !.tb = sec6_sig_emit(st.tb, speed), !.i = Len(sec6_sig)]
               ELSE st
    IN [tb   |-> tbuf_bits(st1.tb, speed, "all", 8, U32(0, lfsr_state_byte(st1.lfsr))),
        lfsr |-> lfsr_next_state(st1.lfsr),
        i    |-> st1.i + 1,
        used |-> st1.lfsr]

RECURSIVE data_loop(_, _, _, _)
data_loop(st, n, sec, speed) ==
    IF n = 0 \/ st.i >= 512 THEN st
    ELSE IF n = 1 THEN data_iter(st, sec, speed)
    ELSE data_loop(data_loop(st, n \div 2, sec, speed), n - (n \div 2), sec, speed)

\* Lines 235-247: the sector header.
copylock_header(tb, type, sec, speed) ==
    LET h1 == IF type = "copylock"
              THEN tbuf_bits(tb, speed, "all", 8, U32(0, 160 + sec))
              ELSE tbuf_bits(tb, speed, "raw", 16,
                             U32(0, SetBit(mfm_encode_word(160 + sec)[2], 13)))
        h2 == tbuf_bits(h1, speed, "all", 16, U32(0, 0))
        h3 == IF type = "copylock"
              THEN tbuf_bits(h2, speed, "raw", 16, U32(0, sync_list[sec + 1]))
              ELSE tbuf_bits(h2, speed, "raw", 16,
                             U32(0, SetBit(mfm_encode_word(176 + sec)[2], 13)))
    IN tbuf_bits(h3, speed, "all", 8, U32(0, sec))

\* speed = (sec == 4 ? ... : sec == 6 ? ... : SPEED_AVG), a uint16_t.
next_speed(sec) ==
    U16(IF sec = 4 THEN (SPEED_AVG * 95) \div 100
        ELSE IF sec = 6 THEN (SPEED_AVG * 105) \div 100
        ELSE SPEED_AVG)

\* Lines 235-256: header and data of one sector.  `used` is the LFSR state
\* whose byte was emitted last.
copylock_sector_data(tb, type, lfsr_seed, sec, speed) ==
    LET hdr  == copylock_header(tb, type, sec, speed)
        lfsr == lfsr_seek(type, lfsr_seed, 0, sec)
    IN data_loop([tb |-> hdr, lfsr |-> lfsr, i |-> 0, used |-> lfsr], 512, sec, speed)

\* One iteration of the sector loop with the gap emitted before the speed is
\* changed.
copylock_read_raw_sector_gap_first(tb, type, lfsr_seed, sec, speed) ==
    LET dat  == copylock_sector_data(tb, type, lfsr_seed, sec, speed)
        ftr  == tbuf_bits(dat.tb, speed, "all", 8, U32(0, 0))
    IN tbuf_gap(ftr, speed, 44 * 8)

\* One iteration of the sector loop with every gap at nominal speed.
copylock_read_raw_sector_gap_nominal(tb, type, lfsr_seed, sec, speed) ==
    LET dat  == copylock_sector_data(tb, type, lfsr_seed, sec, speed)
        ftr  == tbuf_bits(dat.tb, speed, "all", 8, U32(0, 0))
    IN tbuf_gap(ftr, U16(SPEED_AVG), 44 * 8)

\* Lines 235-265: one iteration of the sector loop.
copylock_read_raw_sector(tb, type, lfsr_seed, sec, speed) ==
    LET dat  == copylock_sector_data(tb, type, lfsr_seed, sec, speed)
        ftr  == tbuf_bits(dat.tb, speed, "all", 8, U32(0, 0))
    IN tbuf_gap(ftr, next_speed(sec + 1), 44 * 8)

copylock_read_raw ==
    /\ pc = "cl_read_raw"
    /\ enc.sec < ti.nr_sectors
    /\ tbuf' = copylock_read_raw_sector(tbuf, ti.type, enc.lfsr_seed, enc.sec, enc.speed)
    /\ enc' = [enc EXCEPT
                  !.sec = enc.sec + 1,
                  !.speed = next_speed(enc.sec + 1),
                  !.first = Append(enc.first,
                                   lfsr_seek(ti.type, enc.lfsr_seed, 0, enc.sec)),
                  !.last = Append(enc.last,
                                  copylock_sector_data(tbuf, ti.type, enc.lfsr_seed,
                                                       enc.sec, enc.speed).used)]
    /\ pc' = IF enc.sec + 1 < ti.nr_sectors THEN "cl_read_raw" ELSE "cl_media"
    /\ UNCHANGED <<disk, ti, s, dec, warns, result, tag, probe>>

-----------------------------------------------------------------------------
(* Flux stream reader (libdisk/stream): a finite sequence of cells, the     *)
(* 32-cell shift register `word` as <<hi, lo>>, the index offset of the     *)
(* cell read last, and the latency accumulator in nanoseconds.              *)

\* The 16 cells p .. p+15 of a cell buffer; cells before the first are zero.
Window16(cells, p) ==
    IF p <= -16 THEN 0
    ELSE IF p < 0 THEN cells[1] \div (2^(-p))
    ELSE LET i == (p \div 16) + 1
             r == p % 16
         IN IF r = 0 THEN cells[i]
            ELSE (cells[i] % (2^(16 - r))) * (2^r) + (cells[i + 1] \div (2^(16 - r)))

Cell(cells, p) == Bit(cells[(p \div 16) + 1], 15 - (p % 16))

\* Nanoseconds one cell lasts at a speed.
CellTime(speed) == (2000 * speed) \div SPEED_AVG

\* Time of the cells p .. q-1, from the speed runs.
RECURSIVE RunsTime(_, _, _, _, _)
RunsTime(runs, k, start, p, q) ==
    IF k > Len(runs) \/ start >= q THEN 0
    ELSE LET e  == start + 16 * runs[k][2]
             lo == IF start > p THEN start ELSE p
             hi == IF e < q THEN e ELSE q
         IN (IF hi > lo THEN (hi - lo) * CellTime(runs[k][1]) ELSE 0)
            + RunsTime(runs, k + 1, e, p, q)

index_offset(st) == st.pos - 1

\* stream_next_bits(s, n) when n cells remain; n = 1 is stream_next_bit(s).
stream_next_bits(st, n) ==
    [st EXCEPT !.pos = st.pos + n,
               !.word = U32(Window16(st.cells, st.pos + n - 32),
                            Window16(st.cells, st.pos + n - 16)),
               !.latency = st.latency + RunsTime(st.runs, 1, 0, st.pos, st.pos + n)]

\* Whether a read of n cells hits the end of the stream (returns -1).
stream_eos(st, n) == st.pos + n > st.len

\* The stream after a read that returned -1.
stream_end(st) == [st EXCEPT !.pos = st.len]

\* stream_next_bytes(s, dat, 2*n) followed by mfm_decode_bytes(MFM_all, n, dat,
\* dat): byte i (from 0) of the n decoded bytes read from cell p on.
mfm_decode_bytes(cells, p, n) ==
    [i \in 0..(n - 1) |-> mfm_decode_cells(Window16(cells, p + 16 * i), 8)]

-----------------------------------------------------------------------------
(* copylock_write_raw: one action per iteration of the scan loop, and one   *)
(* for the code after the loop.                                             *)

\* unsigned int least_block = ~0u
NoBlock == 2147483647

\* uint32_t arithmetic on a <<hi, lo>> value: v - n for 0 <= n < 2^31.
Sub32(v, n) ==
    LET lo == v[2] - (n % 65536)
        b  == IF lo < 0 THEN 1 ELSE 0
        hi == v[1] - (n \div 65536) - b
    IN U32((hi + 65536) % 65536, (lo + 65536) % 65536)

\* `continue` after a candidate failed, with the stream put back to where the
\* candidate's sync ended.
resume_search_rewind(s_sync, s_now) == [s_sync EXCEPT !.latency = s_now.latency]

\* `continue` after a candidate failed (copylock.c lines 120, 132, 152, 159;
\* ego.c line 97): the search goes on with the stream as the failed reads left
\* it.  s_sync is the stream when the sync was seen, s_now the stream now.
resume_search(s_sync, s_now) == s_now

\* Lines 102-112: the function-level variable `sec` after the sync test of one
\* iteration (prev is its value before), and whether the iteration ends there
\* with `continue`.
copylock_sync_sec(type, word, nr_sectors, prev) ==
    IF type = "copylock"
    THEN LET m == {k \in 0..(nr_sectors - 1) : word[2] = sync_list[k + 1]}
         IN [sec |-> IF m = {} THEN nr_sectors ELSE CHOOSE k \in m : \A j \in m : k <= j,
             cont |-> FALSE]
    ELSE IF (word[2] \div 256) * 256 # 25856 THEN [sec |-> prev, cont |-> TRUE]
    ELSE LET sec == mfm_decode_bits(word) % 16
             w   == mfm_encode_word(176 + sec)
         IN [sec |-> sec, cont |-> word # U32(w[1], SetBit(w[2], 13))]

\* The comparison loop of lines 146-150 run to i < 511 only.
RECURSIVE lfsr_check_but_last(_, _, _)
lfsr_check_but_last(st, n, dat) ==
    IF n = 0 \/ st.i >= 512 THEN st
    ELSE IF st.i = 511 THEN [i |-> 512, lfsr |-> st.lfsr]
    ELSE IF dat[st.i] # lfsr_state_byte(st.lfsr) THEN st
    ELSE IF n = 1 THEN [i |-> st.i + 1, lfsr |-> lfsr_next_state(st.lfsr)]
    ELSE lfsr_check_but_last(lfsr_check_but_last(st, n \div 2, dat), n - (n \div 2), dat)

\* for (; i < 512; i++) { if (dat[i] != lfsr_state_byte(lfsr)) break; ... }
RECURSIVE lfsr_check(_, _, _)
lfsr_check(st, n, dat) ==
    IF n = 0 \/ st.i >= 512 \/ dat[st.i] # lfsr_state_byte(st.lfsr) THEN st
    ELSE IF n = 1 THEN [i |-> st.i + 1, lfsr |-> lfsr_next_state(st.lfsr)]
    ELSE lfsr_check(lfsr_check(st, n \div 2, dat), n - (n \div 2), dat)

\* The start value taken from data bytes one position apart from line 143's.
lfsr_from_data_off_by_one(dat, i) ==
    dat[i] * 32768 + dat[i + 7] * 128 + (dat[i + 16] \div 2)

\* Line 143: (dat[i] << 15) | (dat[i+8] << 7) | (dat[i+16] >> 1); the three
\* terms have no bit in common.
lfsr_from_data(dat, i) ==
    dat[i] * 32768 + dat[i + 8] * 128 + (dat[i + 16] \div 2)

\* Lines 128-160 without the test for the degenerate all-zero sector.
copylock_check_sector_no_paranoia(type, sec, dat, lfsr_seed) ==
    LET sig_ok   == \A k \in 1..Len(sec6_sig) : dat[k - 1] = sec6_sig[k]
        i        == IF sec = 6 THEN Len(sec6_sig) ELSE 0
        lfsr_sec == IF lfsr_seed # 0
                    THEN lfsr_seek(type, lfsr_seed, 0, sec)
                    ELSE lfsr_from_data(dat, i)
        chk      == lfsr_check([i |-> i, lfsr |-> lfsr_sec], 512, dat)
        seed     == IF lfsr_seed = 0 THEN lfsr_seek(type, lfsr_sec, sec, 0)
                    ELSE lfsr_seed
    IN IF sec = 6 /\ ~sig_ok THEN [event |-> "bad_sig", lfsr_seed |-> lfsr_seed]
       ELSE IF chk.i # 512 THEN [event |-> "bad_lfsr", lfsr_seed |-> lfsr_seed]
       ELSE [event |-> "good", lfsr_seed |-> seed]

\* Lines 128-160 on the decoded sector data: the event and the track seed.
copylock_check_sector(type, sec, dat, lfsr_seed) ==
    LET sig_ok   == \A k \in 1..Len(sec6_sig) : dat[k - 1] = sec6_sig[k]
        i        == IF sec = 6 THEN Len(sec6_sig) ELSE 0
        lfsr_sec == IF lfsr_seed # 0
                    THEN lfsr_seek(type, lfsr_seed, 0, sec)
                    ELSE lfsr_from_data(dat, i)
        chk      == lfsr_check([i |-> i, lfsr |-> lfsr_sec], 512, dat)
        seed     == IF lfsr_seed = 0 THEN lfsr_seek(type, lfsr_sec, sec, 0)
                    ELSE lfsr_seed
    IN IF sec = 6 /\ ~sig_ok THEN [event |-> "bad_sig", lfsr_seed |-> lfsr_seed]
       ELSE IF chk.i # 512 THEN [event |-> "bad_lfsr", lfsr_seed |-> lfsr_seed]
       ELSE IF seed = 0 THEN [event |-> "zero_seed", lfsr_seed |-> seed]
       ELSE [event |-> "good", lfsr_seed |-> seed]

\* The test of line 113 for a sector validated before, never true.
is_valid_sector_never(t, sec) == FALSE

\* is_valid_sector(ti, sec) of line 113.
is_valid_sector(t, sec) == sec \in t.valid_sectors

\* The scan loop entered whatever the number of valid blocks.
scan_more_always(d, t) == TRUE

\* Line 96, the second operand of the loop condition:
\* nr_valid_blocks != ti->nr_sectors.
scan_more(d, t) == d.nr_valid_blocks # t.nr_sectors

\* One iteration of while ((stream_next_bit(s) != -1) && (nr_valid_blocks !=
\* ti->nr_sectors)) { ... }: the next stream, locals, track info and location.
\* dec.event records how the iteration ended, dec.iters counts the evaluations
\* of the loop condition, dec.decoded lists the sectors in the order in which
\* set_sector_valid was called for them and dec.sync_at the cell at which the
\* sync of each began.
copylock_scan(st, d0, t) ==
    LET d == [d0 EXCEPT !.iters = d0.iters + 1] IN
    IF stream_eos(st, 1)
    THEN [s |-> st, dec |-> [d EXCEPT !.event = "eos"], ti |-> t, pc |-> "cl_post"]
    ELSE
    LET s1      == stream_next_bits(st, 1)
        idx_off == index_offset(s1) - 15
        sy      == copylock_sync_sec(t.type, s1.word, t.nr_sectors, d.sec)
        sec     == sy.sec
        s2      == stream_next_bits(s1, 16)
        s3      == stream_next_bits([s2 EXCEPT !.latency = 0], 2 * 512 * 8)
        dat     == mfm_decode_bytes(s2.cells, s2.pos, 512)
        chk     == copylock_check_sector(t.type, sec, dat, d.lfsr_seed)
        out(sx, ev, p) ==
            [s |-> sx, ti |-> t, pc |-> p,
             dec |-> [d EXCEPT !.event = ev, !.sec = sec, !.idx_off = idx_off]]
    IN IF ~scan_more(d, t)
       THEN [s |-> s1, dec |-> [d EXCEPT !.event = "full"], ti |-> t, pc |-> "cl_post"]
       ELSE IF sy.cont \/ sec >= t.nr_sectors THEN out(s1, "nosync", "cl_scan")
       ELSE IF is_valid_sector(t, sec) THEN out(s1, "skip", "cl_scan")
       ELSE IF stream_eos(s1, 16) THEN out(stream_end(s1), "eos_header", "cl_post")
       ELSE IF mfm_decode_cells(s2.word[2], 8) # sec
            THEN out(resume_search(s1, s2), "bad_index", "cl_scan")
       ELSE IF stream_eos(s2, 2 * 512 * 8)
            THEN out(stream_end([s2 EXCEPT !.latency = 0]), "eos_body", "cl_post")
       ELSE IF chk.event # "good"
            THEN [s |-> resume_search(s1, s3), ti |-> t, pc |-> "cl_scan",
                  dec |-> [d EXCEPT !.event = chk.event, !.sec = sec,
                                    !.idx_off = idx_off,
                                    !.lfsr_seed = chk.lfsr_seed]]
       ELSE [s   |-> s3,
             pc  |-> "cl_scan",
             ti  |-> [t EXCEPT !.valid_sectors = t.valid_sectors \cup {sec},
                               !.data_bitoff = IF d.least_block > sec
                                               THEN Pair32(idx_off) ELSE t.data_bitoff],
             dec |-> [d EXCEPT !.event = "good",
                               !.sec = sec,
                               !.idx_off = idx_off,
                               !.decoded = Append(d.decoded, sec),
                               !.sync_at = Append(d.sync_at, idx_off),
                               !.lfsr_seed = chk.lfsr_seed,
                               !.latency = [d.latency EXCEPT ![sec] = s3.latency],
                               !.nr_valid_blocks = d.nr_valid_blocks + 1,
                               !.least_block = IF d.least_block > sec
                                               THEN sec ELSE d.least_block]]

\* Most cells of a track are not at a sector start, so the loop is followed
\* from one sync candidate to the next: the iterations that end at the
\* `continue` of lines 107-113 (event "nosync") are run through, at most n of
\* them, until an iteration ends otherwise or the loop is left.
RECURSIVE copylock_scan_on(_, _)
copylock_scan_on(x, n) ==
    IF n = 0 \/ x.pc # "cl_scan" \/ x.dec.event # "nosync" THEN x
    ELSE IF n = 1 THEN copylock_scan(x.s, x.dec, x.ti)
    ELSE copylock_scan_on(copylock_scan_on(x, n \div 2), n - (n \div 2))

copylock_write_raw_scan ==
    /\ pc = "cl_scan"
    /\ LET n == copylock_scan_on(copylock_scan(s, dec, ti), s.len)
       IN /\ s' = n.s
          /\ dec' = n.dec
          /\ ti' = n.ti
          /\ pc' = n.pc
    /\ UNCHANGED <<disk, tbuf, enc, warns, result, tag, probe>>


\* float d = (100.0 * ((int)latency[sec] - (int)latency[5])) / (int)latency[5]:
\* the quotient is formed in double precision and rounded to the nearest
\* float (ties to even).  The floats next to 2.0 and 4.0 on the side of the
\* tests of lines 185-195 lie 2^-22 away, so a quotient within 2^-23 of a
\* threshold t is stored as t itself.  With q = 100 * (lat - lat5) / lat5 and
\* 0 < lat5 < 2^28:  (float)q > t  iff  q - t > 2^-23, which in integers is
\* 100 * (lat - lat5) - t * lat5 > lat5 \div 2^23.
d_gt(lat, lat5, t) == (100 * (lat - lat5)) - (t * lat5) > lat5 \div 8388608

\* (float)q < t, for t = 4 and t = -2.
d_lt(lat, lat5, t) == (t * lat5) - (100 * (lat - lat5)) > lat5 \div 8388608

\* The switch of lines 183-199 with the tests of sectors 4 and 6 exchanged.
timing_warning_swapped(sec, lat, lat5) ==
    IF sec = 6
    THEN (IF d_gt(lat, lat5, -4) THEN <<[kind |-> "short", n |-> sec]>> ELSE <<>>)
    ELSE IF sec = 4
    THEN (IF d_lt(lat, lat5, 4) THEN <<[kind |-> "long", n |-> sec]>> ELSE <<>>)
    ELSE IF d_lt(lat, lat5, -2) \/ d_gt(lat, lat5, 2)
         THEN <<[kind |-> "normal", n |-> sec]>> ELSE <<>>

\* Lines 179-199: the timing warning of one decoded sector.
timing_warning(sec, lat, lat5) ==
    IF sec = 4
    THEN (IF d_gt(lat, lat5, -4) THEN <<[kind |-> "short", n |-> sec]>> ELSE <<>>)
    ELSE IF sec = 6
    THEN (IF d_lt(lat, lat5, 4) THEN <<[kind |-> "long", n |-> sec]>> ELSE <<>>)
    ELSE IF d_lt(lat, lat5, -2) \/ d_gt(lat, lat5, 2)
         THEN <<[kind |-> "normal", n |-> sec]>> ELSE <<>>

RECURSIVE timing_warnings(_, _, _, _)
timing_warnings(sec, valid, latency, lat5) ==
    IF sec >= 11 THEN <<>>
    ELSE (IF sec \in valid
          THEN timing_warning(sec, IF sec = 5 THEN lat5 ELSE latency[sec], lat5)
          ELSE <<>>)
         \o timing_warnings(sec + 1, valid, latency, lat5)

\* The adjustment of lines 202-209 with a sector taken as 514 bytes, leaving
\* out the 48 of header and gap.
track_offset_no_gap(bitoff, first) ==
    Sub32(Sub32(bitoff, first * (514 * 8 * 2)), 3 * 8 * 2)

\* Lines 202-209: ti->data_bitoff -= sec * (514+48)*8*2 for the first valid
\* sector sec, then ti->data_bitoff -= 3*8*2.
track_offset(bitoff, first) ==
    Sub32(Sub32(bitoff, first * ((514 + 48) * 8 * 2)), 3 * 8 * 2)

\* Lines 175-221 with the reconstruction step left out: the warning is not
\* raised and the sectors that were not read stay invalid.
copylock_payload_no_reconstruct(d, t) ==
    LET lat5  == IF 5 \in t.valid_sectors THEN d.latency[5] ELSE 514 * 8 * 2 * 2000
        tw    == timing_warnings(0, t.valid_sectors, d.latency, lat5)
        first == CHOOSE k \in t.valid_sectors : \A j \in t.valid_sectors : k <= j
        off   == track_offset(t.data_bitoff, first)
    IN [result |-> Block(htobe32(Pair32(d.lfsr_seed))),
        warns  |-> tw,
        ti     |-> [t EXCEPT !.data_bitoff = off, !.len = 4]]

\* Lines 175-221: the return with a payload.
copylock_payload(d, t) ==
    LET lat5  == IF 5 \in t.valid_sectors THEN d.latency[5] ELSE 514 * 8 * 2 * 2000
        tw    == timing_warnings(0, t.valid_sectors, d.latency, lat5)
        first == CHOOSE k \in t.valid_sectors : \A j \in t.valid_sectors : k <= j
        off   == track_offset(t.data_bitoff, first)
        recon == d.nr_valid_blocks # t.nr_sectors
    IN [result |-> Block(htobe32(Pair32(d.lfsr_seed))),
        warns  |-> IF recon
                   THEN Append(tw, [kind |-> "reconstructed", n |-> d.nr_valid_blocks])
                   ELSE tw,
        ti     |-> [t EXCEPT !.data_bitoff = off,
                             !.valid_sectors = IF recon THEN 0..(t.nr_sectors - 1)
                                               ELSE t.valid_sectors,
                             !.len = 4]]

\* Lines 172-221 where a stream that ended inside a sector fails the track.
copylock_finish_fail_on_break(d, t) ==
    IF d.nr_valid_blocks = 0 \/ d.event \in {"eos_header", "eos_body"}
    THEN [result |-> Null, ti |-> t, warns |-> <<>>]
    ELSE copylock_payload(d, t)

\* Lines 172-221: the code after the scan loop.
copylock_finish(d, t) ==
    IF d.nr_valid_blocks = 0
    THEN [result |-> Null, ti |-> t, warns |-> <<>>]
    ELSE copylock_payload(d, t)

copylock_write_raw_finish ==
    /\ pc = "cl_post"
    /\ LET n == copylock_finish(dec, ti)
       IN /\ result' = n.result
          /\ ti' = n.ti
          /\ warns' = warns \o n.warns
    /\ pc' = "cl_done"
    /\ UNCHANGED <<disk, tbuf, enc, s, dec, tag, probe>>

-----------------------------------------------------------------------------
(* ego.c: checksum, track handlers and protection tables.                   *)

\* ego_sum(w, s): w is a word of payload memory (four bytes), s the sum so far.
ego_sum(w, sum) == Ror32(Xor32(sum, be32toh(w)))

behind_the_iron_gate_handler == [bytes_per_sector |-> 6144, nr_sectors |-> 1, sync |-> 35153]

za_zelazna_brama_handler == [bytes_per_sector |-> 6144, nr_sectors |-> 1, sync |-> 35153]

abc_chemii_a_handler == [bytes_per_sector |-> 5632, nr_sectors |-> 1, sync |-> 35153]

abc_chemii_b_handler == [bytes_per_sector |-> 5632, nr_sectors |-> 1, sync |-> 17545]

abc_chemii_timsoft_a_handler == [bytes_per_sector |-> 5632, nr_sectors |-> 1, sync |-> 35153]

abc_chemii_timsoft_b_handler == [bytes_per_sector |-> 5632, nr_sectors |-> 1, sync |-> 17545]

inferior_handler == [bytes_per_sector |-> 5632, nr_sectors |-> 1, sync |-> 35153]

za_zelazna_brama_boot_handler == [bytes_per_sector |-> 512, nr_sectors |-> 11]

\* The handler of the standard AmigaDOS track (11 sectors of 512 bytes).
amigados_handler == [bytes_per_sector |-> 512, nr_sectors |-> 11]

\* handlers[type]
handlers ==
    [copylock                 |-> copylock_handler,
     copylock_old             |-> copylock_handler,
     behind_the_iron_gate     |-> behind_the_iron_gate_handler,
     za_zelazna_brama         |-> za_zelazna_brama_handler,
     abc_chemii_a             |-> abc_chemii_a_handler,
     abc_chemii_b             |-> abc_chemii_b_handler,
     abc_chemii_timsoft_a     |-> abc_chemii_timsoft_a_handler,
     abc_chemii_timsoft_b     |-> abc_chemii_timsoft_b_handler,
     inferior                 |-> inferior_handler,
     za_zelazna_brama_boot    |-> za_zelazna_brama_boot_handler,
     amigados                 |-> amigados_handler,
     amigados_extended        |-> amigados_handler]

EgoTypes ==
    {"behind_the_iron_gate", "za_zelazna_brama", "abc_chemii_a", "abc_chemii_b",
     "abc_chemii_timsoft_a", "abc_chemii_timsoft_b", "inferior"}

abc_chem_protection ==
    <<8193, 29697, 2647, 2648, 2646, 2649, 2648, 2648,
      2647, 2649, 2647, 2648, 2647, 2647, 2648, 2648,
      2647, 2647, 2648, 2648, 2647, 2648, 2647, 2648,
      2646, 2648, 2647, 2648, 2645, 2648, 2647, 2649,
      2645, 2648, 2646, 2648, 2646, 2648, 2646, 2649,
      2647, 2648, 2648, 2649, 2647, 2648, 2648, 2649,
      2647, 2648, 2647, 2648, 2646, 2647, 2646, 2649,
      2647, 2646, 2647, 2648, 2648, 2647, 2648, 2648,
      2648, 2648, 2647, 2647, 2649, 2648, 2647, 2648,
      2648, 2648, 2648, 2648, 2647, 2648, 2645, 2647,
      2647, 2648, 2646, 2647, 2647, 2648, 2647, 2648,
      2647, 2649, 2648, 2648, 2647, 2649, 2647, 2649,
      2646, 2649, 2647, 2649, 2648, 2648, 2648, 2648,
      2648, 2648, 2649, 2648, 2648, 2648, 2649, 2647,
      2648, 2648, 2647, 2648, 2647, 2648, 2649, 2647,
      2645, 2646, 2645, 2646, 2645, 2646, 2645, 2647,
      2645, 2646, 2645, 2645, 2645, 2645, 2646, 2645,
      2646, 2646, 2646, 2646, 2645, 2646, 2645, 2646,
      2644, 2646, 2645, 2646, 2646, 2646, 2646, 2646,
      2645, 2646, 2647, 2646, 2647, 2646, 2647, 2646>>

abc_chem_timsoft_protection ==
    <<512, 65535, 2995, 2968, 3016, 2970, 3002, 2971,
      3015, 2984, 3006, 2976, 2984, 2977, 2993, 2982,
      3009, 2973, 3006, 2995, 2991, 2984, 2977, 2973,
      2991, 2965, 2989, 2984, 3007, 2992, 2975, 2983,
      3008, 2972, 2993, 2970, 2999, 2968, 2987, 2974,
      2999, 2982, 3000, 2971, 2995, 2980, 2981, 2965,
      2999, 2981, 2994, 2979, 2984, 2976, 2975, 2984,
      2986, 2984, 3001, 2979, 2982, 2972, 2985, 2983,
      2979, 2970, 3005, 2973, 2992, 2967, 2990, 2977,
      2974, 2981, 2977, 2978, 2972, 2971, 2984, 2996,
      2991, 2970, 2977, 2970, 2980, 2975, 2991, 2988,
      2979, 2977, 2980, 2978, 2991, 2982, 2976, 2990,
      2999, 2983, 2980, 2986, 2977, 2974, 2989, 2977,
      2983, 2988, 2994, 2983, 2999, 2981, 2995, 2986,
      2986, 2980, 2979, 2973, 2992, 2983, 2982, 2979,
      2998, 2987, 2990, 2985, 2976, 2990, 2984, 2977,
      2989, 2982, 2951, 2955, 2984, 2971, 2979, 2989,
      3003, 2972, 2987, 2984, 3004, 2972, 2980, 2986,
      2992, 2975, 2972, 2976, 2992, 2983, 2979, 2970,
      2994, 2988, 2957, 2984, 2997, 2978, 2990, 2983>>

inferior_protection ==
    <<2610, 2612, 2608, 2609, 2606, 2614, 2605, 2611,
      2597, 2612, 2605, 2611, 2607, 2610, 2610, 2610,
      2613, 2610, 2609, 2610, 2607, 2612, 2605, 2608,
      2606, 2611, 2603, 2609, 2607, 2611, 2606, 2611,
      2607, 2611, 2606, 2610, 2606, 2609, 2606, 2610,
      2605, 2611, 2606, 2612, 2605, 2612, 2605, 2609,
      2607, 2609, 2607, 2608, 2607, 2610, 2608, 2609,
      2605, 2612, 2608, 2609, 2606, 2610, 2603, 2608,
      2606, 2610, 2606, 2609, 2608, 2611, 2605, 2610,
      2606, 2610, 2606, 2610, 2604, 2611, 2607, 2609,
      2606, 2612, 2605, 2611, 2606, 2610, 2605, 2609,
      2609, 2609, 2608, 2610, 2607, 2609, 2609, 2610,
      2607, 2610, 2612, 2606, 2608, 2610, 2606, 2609,
      2607, 2611, 2607, 2611, 2608, 2611, 2605, 2612,
      2607, 2609, 2606, 2610, 2609, 2610, 2607, 2610,
      2608, 2612, 2605, 2609, 2606, 2610, 2606, 2608,
      2607, 2608, 2608, 2609, 2605, 2608, 2610, 2609,
      2605, 2610, 2606, 2610, 2603, 2611, 2604, 2611,
      2603, 2612, 2602, 2612, 2606, 2609, 2604, 2609,
      2600, 2611, 2602, 2610, 2598, 2613, 2601, 0>>

-----------------------------------------------------------------------------
(* The medium between copylock_read_raw and copylock_write_raw.             *)

\* init_track_info defaults of a double-density track.
DefaultTotalBits == 100150

DefaultDataBitoff == 1024

\* Gap words the stream holds before the first cell of the encoded track.
LeadWords == 2

init_track_info(type) ==
    [type |-> type, nr_sectors |-> handlers[type].nr_sectors,
     bytes_per_sector |-> handlers[type].bytes_per_sector,
     len |-> handlers[type].bytes_per_sector * handlers[type].nr_sectors,
     data_bitoff |-> Pair32(DefaultDataBitoff), total_bits |-> DefaultTotalBits,
     valid_sectors |-> {}, dat |-> <<>>]

NoStream == [cells |-> <<>>, runs |-> <<>>, len |-> 0, pos |-> 0,
             word |-> U32(0, 0), latency |-> 0, media |-> <<>>]

NoDec == [lfsr_seed |-> 0, latency |-> [k \in 0..10 |-> 0], nr_valid_blocks |-> 0,
          least_block |-> NoBlock, event |-> "none", sec |-> 0, idx_off |-> 0,
          decoded |-> <<>>, sync_at |-> <<>>, iters |-> 0]

\* first[k + 1] and last[k + 1] are the LFSR states of the first and of the
\* last LFSR byte emitted for sector k.
NoEnc == [sec |-> 0, speed |-> 0, lfsr_seed |-> 0, first |-> <<>>, last |-> <<>>]

\* Damage is tried on the first MaxDamaged sectors of this order.
MaxDamaged == 2

DamageOrder == <<0, 6, 5, 4, 3, 10, 1, 2, 7, 8, 9>>

DamageSectors == {DamageOrder[k] : k \in 1..MaxDamaged}

\* Streams that end early are cut inside sectors 0 .. MaxCutSector.
MaxCutSector == 1

\* Cell offsets in a sector at which a stream is cut: before the sync is
\* complete, inside the index byte, inside the data, inside the gap.
CutOffsets == {40, 72, 4000, 8500}

Clean == [zero |-> {}, tail |-> {}, index |-> {}, dup |-> {}, cut |-> <<>>,
          again |-> FALSE]

\* Damage that makes a candidate sync fail while the sectors after it are
\* intact: a doubled sync, a corrupt signature, a corrupt data byte; and a
\* stream cut after such a failure; and a capture of two revolutions, the
\* first with a corrupt data byte, the second as written.
ResumeMedia ==
    {[Clean EXCEPT !.dup = {0}],
     [Clean EXCEPT !.zero = {6}],
     [Clean EXCEPT !.tail = {3}],
     [Clean EXCEPT !.dup = {0}, !.cut = <<1, 4000>>],
     [Clean EXCEPT !.tail = {3}, !.again = TRUE]}

\* What happened to the track between writing and reading: the data of the
\* sectors in `zero` reads as zero bytes, the last data byte of those in `tail`
\* and the index byte of those in `index` are corrupt, and the stream ends
\* `cut[2]` cells into sector `cut[1]`; in the sectors in `dup` the sync is
\* doubled (the 16 cells before it hold the sync too); with `again` the track
\* as written follows once more.  Every seed is read
\* back clean; the first two sample seeds are also read back damaged.
Media(seed) ==
    {Clean} \cup
    (IF seed = SeedOf(2) THEN ResumeMedia
     ELSE IF seed # SeedOf(1) THEN {}
     ELSE {[Clean EXCEPT !.zero = z] : z \in SUBSET DamageSectors}
          \cup {[Clean EXCEPT !.zero = (0..10) \ {k}] : k \in 0..10}
          \cup {[Clean EXCEPT !.tail = {k}] : k \in DamageSectors}
          \cup {[Clean EXCEPT !.index = {DamageOrder[1]}]}
          \cup {[Clean EXCEPT !.cut = <<c, o>>] : c \in 0..MaxCutSector, o \in CutOffsets})

\* The cells of the encoded track as the medium returns them.
media_cells(cells, m, nr_sectors) ==
    LET sw == Len(cells) \div nr_sectors
    IN [k \in 1..Len(cells) |->
          LET sec == (k - 1) \div sw
              w   == (k - 1) % sw
          IN IF sec \in m.zero /\ w >= 5 /\ w < 5 + 512 THEN 43690
             ELSE IF sec \in m.tail /\ w = 5 + 511
                  THEN cells[k] + 1 - 2 * (cells[k] % 2)
             ELSE IF sec \in m.index /\ w = 4
                  THEN mfm_encode_byte((sec + 1) % 16, 8, 0)
             ELSE IF sec \in m.dup /\ w = 2 THEN cells[k + 1]
             ELSE cells[k]]

stream_open ==
    /\ pc = "cl_media"
    /\ \E m \in Media(enc.lfsr_seed) :
          LET sw == Len(tbuf.cells) \div ti.nr_sectors
              rev2 == IF m.again THEN tbuf ELSE EmptyTbuf
          IN s' = [cells |-> [k \in 1..LeadWords |-> 43690]
                             \o media_cells(tbuf.cells, m, ti.nr_sectors)
                             \o rev2.cells,
                   runs |-> <<<<U16(SPEED_AVG), LeadWords>>>> \o tbuf.runs \o rev2.runs,
                   len |-> IF m.cut = <<>>
                           THEN 16 * (LeadWords + Len(tbuf.cells) + Len(rev2.cells))
                           ELSE 16 * (LeadWords + m.cut[1] * sw) + m.cut[2],
                   pos |-> 0, word |-> U32(0, 0), latency |-> 0, media |-> m]
    /\ ti' = init_track_info(ti.type)
    /\ dec' = NoDec
    /\ tbuf' = EmptyTbuf
    /\ pc' = "cl_scan"
    /\ UNCHANGED <<disk, enc, warns, result, tag, probe>>

\* copylock_read_raw is entered with a stored track of either variant whose
\* seed is one of `seeds`.
copylock_init(seeds) ==
    /\ pc = "cl_read_raw"
    /\ disk = "copylock"
    /\ \E type \in CopylockTypes, seed \in seeds :
          /\ ti = [init_track_info(type) EXCEPT
                      !.len = 4, !.dat = htobe32(Pair32(seed)),
                      !.valid_sectors = 0..(copylock_handler.nr_sectors - 1)]
          /\ enc = [NoEnc EXCEPT !.speed = U16(SPEED_AVG), !.lfsr_seed = seed]
    /\ tbuf = EmptyTbuf
    /\ s = NoStream
    /\ dec = NoDec
    /\ warns = <<>>
    /\ result = NoResult
    /\ tag = NoTag
    /\ probe = <<>>

InitCopylock == copylock_init(Seeds \cup {0})

\* The encoder alone, on more seeds.
NEncodeSeeds == 5

InitEncode == copylock_init({SeedOf(k) : k \in 1..NEncodeSeeds})

NextEncode == copylock_read_raw

SpecEncode == InitEncode /\ [][NextEncode]_vars

NextCopylock ==
    \/ copylock_read_raw
    \/ stream_open
    \/ copylock_write_raw_scan
    \/ copylock_write_raw_finish

SpecCopylock == InitCopylock /\ [][NextCopylock]_vars

-----------------------------------------------------------------------------
(* ego.c: ego_read_raw, ego_write_raw and the boot track of Za Zelazna      *)
(* Brama, on one disk whose tracks are decoded one after another.           *)

\* Number of sample payloads, and number of sample AmigaDOS boot images.
NPayloads == 2

NImages == 2

\* The k-th sample payload of len bytes (a byte pattern whose period is not a
\* multiple of the word size).
EgoPayload(k, len) == [i \in 1..len |-> ((i * i * k) + (i * 37) + (k * 101)) % 251]

\* The k-th sample image of a decoded AmigaDOS track (u8 amigados[11][512]).
AmigadosImage(k) ==
    [i \in 1..(amigados_handler.bytes_per_sector * amigados_handler.nr_sectors) |->
        ((i * (k + 2)) + (k * 77)) % 256]

\* Track numbers the decoder is called with (0..159), sampled at the ends of
\* the 152-entry tag and of the 160-entry tables.
TrackSample == {0, 1, 151, 152, 154, 159}

\* disk_get_tag_by_id(d, DSKTAG_za_zelazna_brama_protection)
disk_get_tag_by_id(tg) == tg

\* disk_set_tag(d, id, len, dat): the tag becomes a copy of the len bytes at
\* dat; mem is the memory at dat as 16-bit words.
disk_set_tag(tg, len, mem) ==
    [set |-> TRUE, len |-> len, protection |-> [j \in 1..(len \div 2) |-> mem[j]]]

\* What an indeterminate 16-bit word may hold.
WildWords == {0, 1824, 65535}

\* The bytes 4*i .. 4*i+3 of payload memory (dat[i] of a uint32_t array).
MemWord(dat, i) == <<dat[4 * i + 1], dat[4 * i + 2], dat[4 * i + 3], dat[4 * i + 4]>>

\* for (i = sum = 0; i < ti->len/4; i++) { tbuf_bits(...); sum = ego_sum(...); }
\* st = [tb, sum]; words i .. i+n-1.
RECURSIVE ego_read_raw_loop(_, _, _, _)
ego_read_raw_loop(st, dat, i, n) ==
    IF st.sum[1] < 0 \/ n = 0 THEN st
    ELSE IF n = 1
         THEN [tb  |-> tbuf_bits(st.tb, SPEED_AVG, "odd_even", 32, be32toh(MemWord(dat, i))),
               sum |-> ego_sum(MemWord(dat, i), st.sum)]
    ELSE ego_read_raw_loop(ego_read_raw_loop(st, dat, i, n \div 2), dat,
                           i + (n \div 2), n - (n \div 2))

\* ego_read_raw: the track buffer and the checksum it was closed with.
ego_read_raw_track(t) ==
    LET tb0 == tbuf_bits(EmptyTbuf, SPEED_AVG, "raw", 16, U32(0, handlers[t.type].sync))
        st  == ego_read_raw_loop([tb |-> tb0, sum |-> U32(0, 0)], t.dat, 0, t.len \div 4)
    IN [tb  |-> tbuf_bits(st.tb, SPEED_AVG, "odd_even", 32, st.sum),
        sum |-> st.sum]

\* index_offset_bc: as index_offset, counted in bit cells.
index_offset_bc(st) == st.pos - 1

\* The data bits of 16 cells moved to the even bit numbers of 16 bits.
RECURSIVE DataCells(_, _)
DataCells(w, n) ==
    IF n = 0 THEN 0 ELSE (w % 2) + 4 * DataCells(w \div 4, n - 1)

\* stream_next_bytes(s, raw, 8) followed by mfm_decode_bytes(bc_mfm_odd_even,
\* 4, raw, &dat): the four decoded bytes of the 64 cells from cell p on.
mfm_decode_odd_even(cells, p) ==
    htobe32(U32(2 * DataCells(Window16(cells, p), 8)
                  + DataCells(Window16(cells, p + 32), 8),
                2 * DataCells(Window16(cells, p + 16), 8)
                  + DataCells(Window16(cells, p + 48), 8)))

\* sum = ego_sum(dat[i], sum) over the words i .. i+n-1 of dat.
RECURSIVE ego_sum_loop(_, _, _, _)
ego_sum_loop(sum, dat, i, n) ==
    IF sum[1] < 0 \/ n = 0 THEN sum
    ELSE IF n = 1 THEN ego_sum(dat[i], sum)
    ELSE ego_sum_loop(ego_sum_loop(sum, dat, i, n \div 2), dat,
                      i + (n \div 2), n - (n \div 2))

\* A read of protection[n] from a table of uint16_t: past the end of the
\* table it returns whatever is there (wild).
TableWord(tab, n, wild) == IF n < Len(tab) THEN tab[n + 1] ELSE wild

\* Whether a read of entry tracknr for this track type lies outside its table.
ego_wild_read(type, tracknr, tg) ==
    IF type = "za_zelazna_brama" THEN tg.set /\ tracknr >= Len(tg.protection)
    ELSE IF type \in {"abc_chemii_a", "abc_chemii_b"}
         THEN tracknr >= Len(abc_chem_protection)
    ELSE IF type \in {"abc_chemii_timsoft_a", "abc_chemii_timsoft_b"}
         THEN tracknr >= Len(abc_chem_timsoft_protection)
    ELSE IF type = "inferior" THEN tracknr >= Len(inferior_protection)
    ELSE FALSE

\* Lines 99-120 without the test of the tag against NULL.
ego_set_protection_no_null_test(t, tracknr, tg, wild) ==
    IF t.type = "za_zelazna_brama"
    THEN [t EXCEPT !.total_bits =
             100900 + ((TableWord(disk_get_tag_by_id(tg).protection, tracknr, wild)
                        - 1824) + 46)]
    ELSE IF t.type \in {"abc_chemii_a", "abc_chemii_b"}
    THEN [t EXCEPT !.total_bits = 100900 + (TableWord(abc_chem_protection, tracknr, wild) - 2581),
                   !.data_bitoff = Pair32(100900)]
    ELSE IF t.type \in {"abc_chemii_timsoft_a", "abc_chemii_timsoft_b"}
    THEN [t EXCEPT !.total_bits =
             100900 + (TableWord(abc_chem_timsoft_protection, tracknr, wild) - 2581),
                   !.data_bitoff = Pair32(100900)]
    ELSE IF t.type = "inferior"
    THEN [t EXCEPT !.total_bits = 100900 + (TableWord(inferior_protection, tracknr, wild) - 2581),
                   !.data_bitoff = Pair32(100900)]
    ELSE t

\* Lines 99-120 with every static variant reading abc_chem_protection.
ego_set_protection_one_table(t, tracknr, tg, wild) ==
    IF t.type = "za_zelazna_brama"
    THEN IF disk_get_tag_by_id(tg).set
         THEN [t EXCEPT !.total_bits =
                  100900 + ((TableWord(disk_get_tag_by_id(tg).protection, tracknr, wild)
                             - 1824) + 46)]
         ELSE t
    ELSE IF t.type \in {"abc_chemii_a", "abc_chemii_b", "abc_chemii_timsoft_a",
                        "abc_chemii_timsoft_b", "inferior"}
    THEN [t EXCEPT !.total_bits = 100900 + (TableWord(abc_chem_protection, tracknr, wild) - 2581),
                   !.data_bitoff = Pair32(100900)]
    ELSE t

\* Lines 99-120: the track length and offset set once the checksum matched.
ego_set_protection(t, tracknr, tg, wild) ==
    IF t.type = "za_zelazna_brama"
    THEN IF disk_get_tag_by_id(tg).set
         THEN [t EXCEPT !.total_bits =
                  100900 + ((TableWord(disk_get_tag_by_id(tg).protection, tracknr, wild)
                             - 1824) + 46)]
         ELSE t
    ELSE IF t.type \in {"abc_chemii_a", "abc_chemii_b"}
    THEN [t EXCEPT !.total_bits = 100900 + (TableWord(abc_chem_protection, tracknr, wild) - 2581),
                   !.data_bitoff = Pair32(100900)]
    ELSE IF t.type \in {"abc_chemii_timsoft_a", "abc_chemii_timsoft_b"}
    THEN [t EXCEPT !.total_bits =
             100900 + (TableWord(abc_chem_timsoft_protection, tracknr, wild) - 2581),
                   !.data_bitoff = Pair32(100900)]
    ELSE IF t.type = "inferior"
    THEN [t EXCEPT !.total_bits = 100900 + (TableWord(inferior_protection, tracknr, wild) - 2581),
                   !.data_bitoff = Pair32(100900)]
    ELSE t

\* One iteration of while (stream_next_bit(s) != -1) { ... } of ego_write_raw,
\* up to the checksum test: the next stream, locals, track info and location.
\* dec.event records how the iteration ended; dec.dat is uint32_t dat[], one
\* entry of four bytes per word; dec.iters counts the evaluations of the loop
\* condition.
ego_scan(st, d0, t) ==
    LET d == [d0 EXCEPT !.iters = d0.iters + 1] IN
    IF stream_eos(st, 1)
    THEN [s |-> st, dec |-> [d EXCEPT !.event = "eos"], ti |-> t, pc |-> "ego_fail"]
    ELSE
    LET s1   == stream_next_bits(st, 1)
        n    == t.len \div 4
        t1   == [t EXCEPT !.data_bitoff = Pair32(index_offset_bc(s1) - 15)]
        s2   == stream_next_bits(s1, 64 * n)
        s3   == stream_next_bits(s2, 64)
        dat  == [i \in 0..(n - 1) |-> mfm_decode_odd_even(s1.cells, s1.pos + 64 * i)]
        sum  == ego_sum_loop(U32(0, 0), dat, 0, n)
        csum == mfm_decode_odd_even(s2.cells, s2.pos)
    IN IF s1.word[2] # handlers[t.type].sync
       THEN [s |-> s1, dec |-> [d EXCEPT !.event = "nosync"], ti |-> t, pc |-> "ego_scan"]
       ELSE IF stream_eos(s1, 64 * n)
       THEN [s |-> stream_end(s1), dec |-> [d EXCEPT !.event = "eos_data"],
             ti |-> t1, pc |-> "ego_fail"]
       ELSE IF stream_eos(s2, 64)
       THEN [s |-> stream_end(s2), dec |-> [d EXCEPT !.event = "eos_csum"],
             ti |-> t1, pc |-> "ego_fail"]
       ELSE LET good == sum = be32toh(csum)
            IN [s   |-> IF good THEN s3 ELSE resume_search(s1, s3),
                dec |-> [d EXCEPT !.event = IF good THEN "good" ELSE "bad_sum",
                                  !.sum = sum, !.csum = csum, !.dat = dat,
                                  !.sync_pos = s1.pos],
                ti  |-> t1,
                pc  |-> IF good THEN "ego_good" ELSE "ego_scan"]

\* The iterations that end at the `continue` of line 80 are run through, at
\* most n of them, until an iteration ends otherwise or the loop is left.
RECURSIVE ego_scan_on(_, _)
ego_scan_on(x, n) ==
    IF n = 0 \/ x.pc # "ego_scan" \/ x.dec.event # "nosync" THEN x
    ELSE IF n = 1 THEN ego_scan(x.s, x.dec, x.ti)
    ELSE ego_scan_on(ego_scan_on(x, n \div 2), n - (n \div 2))

\* memcpy(block, dat, ti->len / 4): the length taken in words for bytes.
ego_block_len_in_words(dat, len) ==
    [j \in 1..(len \div 4) |-> dat[(j - 1) \div 4][((j - 1) % 4) + 1]]

\* memcpy(block, dat, ti->len)
ego_block(dat, len) == [j \in 1..len |-> dat[(j - 1) \div 4][((j - 1) % 4) + 1]]

\* The formats a disk may have, with the track types found on each.
DiskTypes ==
    [za_zelazna_brama     |-> {"za_zelazna_brama"},
     behind_the_iron_gate |-> {"behind_the_iron_gate"},
     abc_chemii           |-> {"abc_chemii_a", "abc_chemii_b"},
     abc_chemii_timsoft   |-> {"abc_chemii_timsoft_a", "abc_chemii_timsoft_b"},
     inferior             |-> {"inferior"}]

\* Cells into the block at which a captured stream may end: inside the sync,
\* inside the data, inside the checksum.
EgoCuts(len) == {8, 1000, 16 + 64 * (len \div 4) + 30}

EgoClean == [kind |-> "clean", at |-> 0]

\* What happened to the track between writing and reading: nothing, one data
\* bit of the last payload word or of the checksum flipped, or the stream cut;
\* a stray sync word 32 cells ahead of the block ("false_sync"); two
\* revolutions captured, the first with a flipped data bit ("two_rev").
\* The first sample payload is also read back damaged.
EgoMedia(type, payload, len) ==
    {EgoClean}
    \cup (IF payload = 1 /\ type \in {"za_zelazna_brama", "abc_chemii_b"}
          THEN {[kind |-> "bad_data", at |-> 0], [kind |-> "bad_csum", at |-> 0]}
               \cup {[kind |-> "cut", at |-> c] : c \in EgoCuts(len)}
          ELSE {})
    \cup (IF payload = 1 /\ type = "abc_chemii_b"
          THEN {[kind |-> "false_sync", at |-> 0]} ELSE {})
    \cup (IF payload = 1 /\ type \in {"abc_chemii_b", "behind_the_iron_gate"}
          THEN {[kind |-> "two_rev", at |-> 0]} ELSE {})

ego_media_cells(cells, m) ==
    LET k == IF m.kind \in {"bad_data", "two_rev"} THEN Len(cells) - 4
             ELSE IF m.kind = "bad_csum" THEN Len(cells) ELSE 0
    IN IF k = 0 THEN cells
       ELSE [cells EXCEPT ![k] = cells[k] + 1 - 2 * (cells[k] % 2)]

\* The cells of the captured stream: gap, the track as the medium returns it,
\* gap; for two revolutions the undamaged track and a gap once more.
ego_stream_cells(cells, m) ==
    LET gap  == [k \in 1..LeadWords |-> 43690]
        lead == IF m.kind = "false_sync"
                THEN [gap EXCEPT ![LeadWords - 1] = cells[1]] ELSE gap
    IN lead \o ego_media_cells(cells, m) \o gap
       \o (IF m.kind = "two_rev" THEN cells \o gap ELSE <<>>)

EgoNoDec == [event |-> "none", sum |-> U32(0, 0), csum |-> <<0, 0, 0, 0>>,
             dat |-> <<>>, sync_pos |-> 0, iters |-> 0]

EgoNoEnc == [type |-> "none", tracknr |-> 0, payload |-> 0, image |-> 0,
             had_tag |-> FALSE, sum |-> U32(0, 0)]

\* The caller picks a stored track of the disk and ego_read_raw encodes it.
ego_read_raw ==
    /\ pc = "ego_idle"
    /\ \E type \in DiskTypes[disk], k \in 1..NPayloads :
          LET t == [init_track_info(type) EXCEPT
                       !.dat = EgoPayload(k, handlers[type].bytes_per_sector),
                       !.valid_sectors = {0}]
              r == ego_read_raw_track(t)
          IN /\ ti' = t
             /\ tbuf' = r.tb
             /\ enc' = [EgoNoEnc EXCEPT !.type = type, !.payload = k, !.sum = r.sum,
                                        !.had_tag = tag.set]
    /\ pc' = "ego_media"
    /\ UNCHANGED <<disk, s, dec, warns, result, tag, probe>>

\* The encoded track is captured as a stream, with gap on both sides.
ego_stream_open ==
    /\ pc = "ego_media"
    /\ \E m \in EgoMedia(enc.type, enc.payload, ti.len) :
          s' = [cells |-> ego_stream_cells(tbuf.cells, m),
                runs |-> <<<<U16(SPEED_AVG), Len(ego_stream_cells(tbuf.cells, m))>>>>,
                len |-> IF m.kind = "cut" THEN 16 * LeadWords + m.at
                        ELSE 16 * Len(ego_stream_cells(tbuf.cells, m)),
                pos |-> 0, word |-> U32(0, 0), latency |-> 0, media |-> m]
    /\ ti' = init_track_info(ti.type)
    /\ dec' = EgoNoDec
    /\ tbuf' = EmptyTbuf
    /\ pc' = "ego_scan"
    /\ UNCHANGED <<disk, enc, warns, result, tag, probe>>

\* ego_write_raw, lines 73-98: from one sync candidate to the next, to the
\* failure return (lines 128-129) or to a block whose checksum matched.
ego_write_raw_scan ==
    /\ pc = "ego_scan"
    /\ LET x == ego_scan_on(ego_scan(s, dec, ti), s.len)
       IN /\ s' = x.s
          /\ dec' = x.dec
          /\ ti' = x.ti
          /\ pc' = IF x.pc = "ego_fail" THEN "ego_done" ELSE x.pc
          /\ result' = IF x.pc = "ego_fail" THEN Null ELSE result
    /\ UNCHANGED <<disk, tbuf, enc, warns, tag, probe>>

\* ego_write_raw, lines 99-125: the return with the block.  tracknr is read
\* only here, so the track number of the call is drawn here.
ego_write_raw_return ==
    /\ pc = "ego_good"
    /\ \E tracknr \in TrackSample :
       \E wild \in (IF ego_wild_read(ti.type, tracknr, tag) THEN WildWords ELSE {0}) :
          /\ ti' = [ego_set_protection(ti, tracknr, tag, wild)
                       EXCEPT !.valid_sectors = 0..(ti.nr_sectors - 1)]
          /\ enc' = [enc EXCEPT !.tracknr = tracknr, !.had_tag = tag.set]
    /\ result' = Block(ego_block(dec.dat, ti.len))
    /\ pc' = "ego_done"
    /\ UNCHANGED <<disk, tbuf, s, dec, warns, tag, probe>>

\* What handlers[TRKTYP_amigados]->write_raw may do with the boot track: fail,
\* return a decoded image, or return one after changing the track type.
AmigadosOutcomes ==
    {[ret |-> "NULL", type |-> "amigados", image |-> 0]}
    \cup {[ret |-> "block", type |-> "amigados", image |-> k] : k \in 1..NImages}
    \cup {[ret |-> "block", type |-> "amigados_extended", image |-> 1]}

\* The two words that lie behind uint16_t dat[152] in the frame.
OverRead == {<<0, 0>>, <<65535, 1824>>}

\* Lines 257-261: dat[j] from the bytes i = 4 + 2*j and i + 1 of ablk.
boot_dat(ablk) == [j \in 1..152 |-> (ablk[4 + 2 * (j - 1) + 1] * 256) + ablk[4 + 2 * (j - 1) + 2]]

\* za_zelazna_brama_boot_write_raw with the test of line 263 left out.
za_zelazna_brama_boot_always_set(tg, a, over) ==
    LET t    == init_track_info(a.type)
        ablk == AmigadosImage(a.image)
    IN IF a.ret = "NULL" \/ t.type # "amigados"
       THEN [result |-> Null, tag |-> tg, ti |-> t, dat |-> <<>>]
       ELSE [result |-> Block(ablk),
             tag    |-> disk_set_tag(tg, 308, boot_dat(ablk) \o over),
             ti     |-> [t EXCEPT !.valid_sectors = 0..(t.nr_sectors - 1)],
             dat    |-> boot_dat(ablk)]

\* za_zelazna_brama_boot_write_raw: a is what the AmigaDOS handler did, over
\* the memory behind dat[].
za_zelazna_brama_boot(tg, a, over) ==
    LET protectiontag == disk_get_tag_by_id(tg)
        t    == init_track_info(a.type)
        ablk == AmigadosImage(a.image)
    IN IF a.ret = "NULL" \/ t.type # "amigados"
       THEN [result |-> Null, tag |-> tg, ti |-> t, dat |-> <<>>]
       ELSE [result |-> Block(ablk),
             tag    |-> IF ~protectiontag.set
                        THEN disk_set_tag(tg, 308, boot_dat(ablk) \o over)
                        ELSE tg,
             ti     |-> [t EXCEPT !.valid_sectors = 0..(t.nr_sectors - 1)],
             dat    |-> boot_dat(ablk)]

za_zelazna_brama_boot_write_raw ==
    /\ pc = "ego_idle"
    /\ disk = "za_zelazna_brama"
    /\ \E a \in AmigadosOutcomes :
       \E over \in (IF a.ret = "block" /\ a.type = "amigados" /\ ~tag.set
                    THEN OverRead ELSE {<<0, 0>>}) :
          LET r == za_zelazna_brama_boot(tag, a, over)
          IN /\ tag' = r.tag
             /\ ti' = r.ti
             /\ result' = r.result
             /\ probe' = IF r.result.ret = "block" /\ probe.first = <<>>
                         THEN [first |-> r.dat] ELSE probe
             /\ enc' = [EgoNoEnc EXCEPT !.type = "za_zelazna_brama_boot",
                                        !.image = a.image, !.had_tag = tag.set]
    /\ pc' = "ego_done"
    /\ UNCHANGED <<disk, tbuf, s, dec, warns>>

\* The caller is done with the track and turns to another.
disk_next_track ==
    /\ pc = "ego_done"
    /\ pc' = "ego_idle"
    /\ ti' = init_track_info("amigados")
    /\ enc' = EgoNoEnc
    /\ s' = NoStream
    /\ dec' = EgoNoDec
    /\ result' = NoResult
    /\ UNCHANGED <<disk, tbuf, warns, tag, probe>>

InitEgo ==
    /\ pc = "ego_idle"
    /\ disk \in DOMAIN DiskTypes
    /\ ti = init_track_info("amigados")
    /\ tbuf = EmptyTbuf
    /\ enc = EgoNoEnc
    /\ s = NoStream
    /\ dec = EgoNoDec
    /\ warns = <<>>
    /\ result = NoResult
    /\ tag = NoTag
    /\ probe = [first |-> <<>>]

NextEgo ==
    \/ ego_read_raw
    \/ ego_stream_open
    \/ ego_write_raw_scan
    \/ ego_write_raw_return
    \/ za_zelazna_brama_boot_write_raw
    \/ disk_next_track

SpecEgo == InitEgo /\ [][NextEgo]_vars

-----------------------------------------------------------------------------
(* Both decoders on streams that hold a failing candidate: CopyLock tracks  *)
(* of the second sample seed and the tracks of an ABC Chemii disk.          *)

InitDecoders ==
    \/ InitCopylock /\ enc.lfsr_seed = SeedOf(2)
    \/ InitEgo /\ disk = "abc_chemii"

NextDecoders ==
    \/ copylock_read_raw
    \/ stream_open
    \/ copylock_write_raw_scan
    \/ copylock_write_raw_finish
    \/ ego_read_raw
    \/ ego_stream_open
    \/ ego_write_raw_scan
    \/ ego_write_raw_return
    \/ disk_next_track

SpecDecoders == InitDecoders /\ [][NextDecoders]_vars

\* Both decoders are straight-line C around one loop and nothing can suspend
\* them: a loop iteration or the code after the loop that can run does run.
\* This is weak fairness of the four steps of the decoders, with "enabled"
\* written as the location at which the step stands, since each of them can
\* be taken at its location whatever the other variables hold.
FairDecoders ==
    /\ []<>(pc # "cl_scan") \/ []<><<copylock_write_raw_scan>>_vars
    /\ []<>(pc # "cl_post") \/ []<><<copylock_write_raw_finish>>_vars
    /\ []<>(pc # "ego_scan") \/ []<><<ego_write_raw_scan>>_vars
    /\ []<>(pc # "ego_good") \/ []<><<ego_write_raw_return>>_vars

SpecDecodersFair == InitDecoders /\ [][NextDecoders]_vars /\ FairDecoders

-----------------------------------------------------------------------------
(* The code after the scan loop of copylock_write_raw on latencies around   *)
(* the thresholds of the timing check.                                      *)

\* Latencies of sector 5: the nominal 8192 cells of 2000 ns, a drive that
\* runs fast, and a drive that runs slow (above 2^24 ns).
TimingLat5 == {16384000, 15990000, 16800049}

\* A decoded sector, the threshold its latency lies at, and the distance in
\* nanoseconds from the latency at which d crosses the threshold.
TimingCases ==
    {[sec |-> k, t |-> t, delta |-> dl] :
        k \in {0, 4, 6, 10}, t \in {-4, -2, 0, 2, 4}, dl \in {-1, 0, 1}}

\* What latency[] holds for a sector that was never decoded (the array is not
\* initialised).
StaleLatency == {0, 20000000}

InitTiming ==
    /\ pc = "cl_post"
    /\ disk = "copylock"
    /\ \E c \in TimingCases, b \in TimingLat5 \cup {0}, g \in StaleLatency :
          LET has5 == b # 0
              ref  == IF has5 THEN b ELSE 514 * 8 * 2 * 2000
              a    == ref + ((c.t * ref) \div 100) + c.delta
              V    == IF has5 /\ c.sec > 5 THEN <<5, c.sec>>
                      ELSE IF has5 THEN <<c.sec, 5>> ELSE <<c.sec>>
          IN /\ dec = [NoDec EXCEPT
                         !.lfsr_seed = SeedOf(1),
                         !.latency = [k \in 0..10 |->
                                        IF k = c.sec THEN a
                                        ELSE IF k = 5 /\ has5 THEN b ELSE g],
                         !.nr_valid_blocks = Len(V),
                         !.least_block = V[1],
                         !.event = "eos",
                         !.decoded = V]
             /\ ti = [init_track_info("copylock") EXCEPT
                         !.valid_sectors = {V[k] : k \in 1..Len(V)},
                         !.data_bitoff = Pair32(16 * LeadWords + V[1] * 8992 + 48)]
    /\ enc = [NoEnc EXCEPT !.lfsr_seed = SeedOf(1)]
    /\ tbuf = EmptyTbuf
    /\ s = NoStream
    /\ warns = <<>>
    /\ result = NoResult
    /\ tag = NoTag
    /\ probe = <<>>

NextTiming == copylock_write_raw_finish

SpecTiming == InitTiming /\ [][NextTiming]_vars

-----------------------------------------------------------------------------
(* The LFSR operations applied to sample states: `probe` is the chain of    *)
(* operations applied so far, each with the value it returned.              *)

\* Sample states are taken around each bit boundary and from the seeds,
\* together with the 23 states that have a single bit set: the LFSR steps, the
\* state byte and the start value of line 143 are linear over GF(2) (shifts,
\* exclusive or, and an or of terms with no bit in common), so what holds of
\* those 23 states as an equation between such terms holds of every state.
NProbe == 24

\* Longest chain of operations applied to one sample.
MaxChain == 3

LfsrSamples ==
    {k : k \in 1..NProbe}
    \cup {8388608 - k : k \in 1..NProbe}
    \cup {4194304 + k : k \in 0..NProbe}
    \cup {4194304 - k : k \in 1..NProbe}
    \cup {SeedOf(k) : k \in 1..NProbe}
    \cup {2^k : k \in 0..22}

InitLfsr ==
    /\ pc = "lfsr"
    /\ disk = "copylock"
    /\ \E x \in LfsrSamples : probe = <<[op |-> "init", val |-> x]>>
    /\ ti = init_track_info("copylock")
    /\ tbuf = EmptyTbuf
    /\ enc = NoEnc
    /\ s = NoStream
    /\ dec = NoDec
    /\ warns = <<>>
    /\ result = NoResult
    /\ tag = NoTag

Last(q) == q[Len(q)].val

lfsr_next ==
    /\ pc = "lfsr"
    /\ Len(probe) < MaxChain
    /\ probe' = Append(probe, [op |-> "next", val |-> lfsr_next_state(Last(probe))])
    /\ UNCHANGED <<disk, pc, ti, tbuf, enc, s, dec, warns, result, tag>>

lfsr_prev ==
    /\ pc = "lfsr"
    /\ Len(probe) < MaxChain
    /\ probe' = Append(probe, [op |-> "prev", val |-> lfsr_prev_state(Last(probe))])
    /\ UNCHANGED <<disk, pc, ti, tbuf, enc, s, dec, warns, result, tag>>

\* The bytes the generator emits from the state on (lines 254-255), and the
\* start value line 143 takes from them.
lfsr_synth ==
    /\ pc = "lfsr"
    /\ Len(probe) < MaxChain
    /\ LET dat == [k \in 0..16 |-> lfsr_state_byte(lfsr_walk(Last(probe), k, TRUE))]
       IN probe' = Append(probe, [op |-> "synth", val |-> lfsr_from_data(dat, 0)])
    /\ UNCHANGED <<disk, pc, ti, tbuf, enc, s, dec, warns, result, tag>>

NextLfsr ==
    \/ lfsr_next
    \/ lfsr_prev
    \/ lfsr_synth

SpecLfsr == InitLfsr /\ [][NextLfsr]_vars

-----------------------------------------------------------------------------
(* lfsr_seek applied in chains: from a state at the start of one sector to  *)
(* the start of a second and on to the start of a third.                    *)

\* Number of sample seeds sought from, next to the states with only the
\* lowest and only the highest bit set.  Which sectors a seek walks over, and
\* by how many steps, depends on the variant and on `from` and `to` alone, so
\* those are drawn exhaustively and the states sparsely.
NSeekSeeds == 2

SeekSamples == {1, 4194304} \cup {SeedOf(k) : k \in 1..NSeekSeeds}

\* `from` and `to` of lfsr_seek: the start of sector 0 .. 10, or the end of
\* the track (11).
SeekSectors == 0..11

InitSeek ==
    /\ pc = "lfsr_seek"
    /\ disk = "copylock"
    /\ \E x \in SeekSamples, type \in CopylockTypes, a \in SeekSectors :
          /\ probe = <<[op |-> "init", val |-> x, from |-> a, to |-> a]>>
          /\ ti = init_track_info(type)
    /\ tbuf = EmptyTbuf
    /\ enc = NoEnc
    /\ s = NoStream
    /\ dec = NoDec
    /\ warns = <<>>
    /\ result = NoResult
    /\ tag = NoTag

\* lfsr_seek(ti, x, from, to) from where the last seek arrived; a chain is
\* the sample and two seeks, a to b and b to c.
lfsr_seek_on ==
    /\ pc = "lfsr_seek"
    /\ Len(probe) < 3
    /\ \E to \in SeekSectors :
          LET from == probe[Len(probe)].to
          IN probe' = Append(probe, [op |-> "seek",
                                     val |-> lfsr_seek(ti.type, Last(probe), from, to),
                                     from |-> from, to |-> to])
    /\ UNCHANGED <<disk, pc, ti, tbuf, enc, s, dec, warns, result, tag>>

NextSeek == lfsr_seek_on

SpecSeek == InitSeek /\ [][NextSeek]_vars

-----------------------------------------------------------------------------
(* Properties.                                                              *)

\* C3: on 23-bit states lfsr_prev_state undoes lfsr_next_state and
\* lfsr_next_state undoes lfsr_prev_state, and every result is a 23-bit value.
LfsrStepsInverse ==
    /\ \A i \in 1..Len(probe) : probe[i].val \in 0..8388607
    /\ \A i \in 1..(Len(probe) - 2) :
          /\ (probe[i + 1].op = "next" /\ probe[i + 2].op = "prev")
                => probe[i + 2].val = probe[i].val
          /\ (probe[i + 1].op = "prev" /\ probe[i + 2].op = "next")
                => probe[i + 2].val = probe[i].val

\* A state with bit 22 and bit 0 set was stepped forward and then back.
LfsrStepsInverseWitness ==
    /\ Len(probe) = 3
    /\ probe[1].val = 8388607
    /\ probe[2].op = "next"
    /\ probe[3].op = "prev"

\* The seed the track was written with.
PayloadSeed == enc.lfsr_seed

\* C1: for a non-zero 23-bit seed and either variant, decoding the cells that
\* copylock_read_raw emitted returns the four bytes of the seed, big-endian,
\* with all 11 sectors valid.
CopylockRoundTrip ==
    (pc = "cl_done" /\ s.media = Clean /\ PayloadSeed # 0)
        => /\ PayloadSeed \in 1..8388607
           /\ result = Block(htobe32(Pair32(PayloadSeed)))
           /\ ti.valid_sectors = 0..10
           /\ ti.len = 4

\* An undamaged old-variant track of the second seed was decoded.
CopylockRoundTripWitness ==
    /\ pc = "cl_done"
    /\ s.media = Clean
    /\ ti.type = "copylock_old"
    /\ PayloadSeed = SeedOf(2)
    /\ result = Block(htobe32(Pair32(SeedOf(2))))
    /\ dec.nr_valid_blocks = 11

\* C4: while scanning, nr_valid_blocks > 0 implies a non-zero 23-bit
\* lfsr_seed; a returned payload holds that non-zero seed; and a candidate
\* sector whose recovered seed is zero is not marked valid.
CopylockSeedNonZero ==
    /\ dec.nr_valid_blocks > 0 => dec.lfsr_seed \in 1..8388607
    /\ (pc = "cl_done" /\ result.ret = "block")
          => /\ result = Block(htobe32(Pair32(dec.lfsr_seed)))
             /\ be32toh(result.dat) # Pair32(0)
    /\ dec.event = "zero_seed"
          => /\ dec.sec \notin ti.valid_sectors
             /\ dec.lfsr_seed = 0
             /\ dec.nr_valid_blocks = 0

\* On a track with a non-zero seed, sector 0 read back as all-zero data passed
\* the LFSR comparison and was rejected.
CopylockSeedNonZeroWitness ==
    /\ pc = "cl_scan"
    /\ dec.event = "zero_seed"
    /\ dec.sec = 0
    /\ PayloadSeed # 0
    /\ ti.valid_sectors = {}

\* C5: when copylock_write_raw returns a payload, all 11 sectors are marked
\* valid, ti->len is 4, the payload is the big-endian seed, and the
\* "Reconstructed damaged track" warning is raised exactly when fewer than 11
\* sectors were validated from the stream.
CopylockReconstruct ==
    (pc = "cl_done" /\ result.ret = "block")
        => /\ dec.nr_valid_blocks >= 1
           /\ ti.valid_sectors = 0..10
           /\ ti.len = 4
           /\ result = Block(htobe32(Pair32(dec.lfsr_seed)))
           /\ (\E k \in 1..Len(warns) : warns[k].kind = "reconstructed")
                 <=> dec.nr_valid_blocks < 11
           /\ \A k \in 1..Len(warns) :
                 warns[k].kind = "reconstructed" => warns[k].n = dec.nr_valid_blocks

\* A payload was returned from a track on which only one sector was readable.
CopylockReconstructWitness ==
    /\ pc = "cl_done"
    /\ dec.nr_valid_blocks = 1
    /\ result = Block(htobe32(Pair32(PayloadSeed)))
    /\ ti.valid_sectors = 0..10
    /\ Cardinality(s.media.zero) = 10

\* C6: copylock_write_raw returns NULL exactly when no sector was validated
\* before the scan ended; a stream that ends inside a header or body read
\* after a sector was validated still yields the seed payload.
CopylockNullIffNoneValid ==
    pc = "cl_done"
        => /\ result = Null <=> dec.nr_valid_blocks = 0
           /\ (dec.event \in {"eos_header", "eos_body"} /\ dec.nr_valid_blocks > 0)
                 => result = Block(htobe32(Pair32(PayloadSeed)))

\* The stream ended inside the body of the second sector and the payload was
\* returned from the first.
CopylockNullIffNoneValidWitness ==
    /\ pc = "cl_done"
    /\ dec.event = "eos_body"
    /\ dec.nr_valid_blocks = 1
    /\ result.ret = "block"

\* The payload the track in hand was written with.
EgoPayloadWritten == EgoPayload(enc.payload, handlers[enc.type].bytes_per_sector)

\* C2: for every ego type (sync 0x8951 or 0x4489) and payload of the handler's
\* length, ego_write_raw on the cells ego_read_raw emitted returns a block
\* byte-identical to the payload, and the checksum folded while decoding is
\* the trailing checksum word that the encoder emitted.
EgoRoundTrip ==
    (pc = "ego_done" /\ enc.type \in EgoTypes /\ s.media = EgoClean)
        => /\ result = Block(EgoPayloadWritten)
           /\ dec.sum = enc.sum
           /\ be32toh(dec.csum) = enc.sum

\* A track with sync 0x4489 and the second payload was written and read back,
\* with a checksum that is not zero.
EgoRoundTripWitness ==
    /\ pc = "ego_done"
    /\ enc.type = "abc_chemii_b"
    /\ handlers[enc.type].sync = 17545
    /\ enc.payload = 2
    /\ s.media = EgoClean
    /\ result.ret = "block"
    /\ Len(result.dat) = 5632
    /\ enc.sum # U32(0, 0)

\* The first 152 words of the tag.
TagWords == [j \in 1..152 |-> tag.protection[j]]

\* C7: over any sequence of track decodes the protection tag is write-once:
\* it appears only through a successful boot-track decode made while no tag
\* exists, and once present it never changes.
TagWriteOnce ==
    [][/\ tag.set => tag' = tag
       /\ (~tag.set /\ tag'.set)
             => /\ pc = "ego_idle"
                /\ enc'.type = "za_zelazna_brama_boot"
                /\ result'.ret = "block"
                /\ tag'.protection[1] = boot_dat(result'.dat)[1]]_vars

\* The boot track was decoded again, successfully and with other sector data,
\* and the tag still holds the words of the first decode.
TagWriteOnceWitness ==
    /\ pc = "ego_done"
    /\ enc.type = "za_zelazna_brama_boot"
    /\ result.ret = "block"
    /\ enc.had_tag
    /\ tag.set
    /\ TagWords = probe.first
    /\ TagWords # boot_dat(result.dat)

\* C8: a za_zelazna_brama track with a correct checksum decoded while the tag
\* is absent still returns the payload with its sector valid, and total_bits
\* keeps the value init_track_info gave it.
ZaWithoutTag ==
    (pc = "ego_done" /\ enc.type = "za_zelazna_brama" /\ s.media = EgoClean /\ ~tag.set)
        => /\ result = Block(EgoPayloadWritten)
           /\ ti.valid_sectors = {0}
           /\ ti.total_bits = init_track_info(enc.type).total_bits

\* Track 159 of a Za Zelazna Brama disk was decoded before any boot track.
ZaWithoutTagWitness ==
    /\ pc = "ego_done"
    /\ enc.type = "za_zelazna_brama"
    /\ enc.tracknr = 159
    /\ ~tag.set
    /\ result.ret = "block"
    /\ ti.valid_sectors = {0}

\* C9: a successful za_zelazna_brama decode of track n made after a successful
\* boot decode sets total_bits = 100900 + (protection[n] - 0x720) + 46, with
\* protection[n] the n-th of the words the first successful boot decode took
\* from the boot track.
ZaTotalBitsFromTag ==
    (pc = "ego_done" /\ enc.type = "za_zelazna_brama" /\ result.ret = "block"
        /\ probe.first # <<>>)
        => /\ enc.tracknr < Len(probe.first)
           /\ ti.total_bits = 100900 + (probe.first[enc.tracknr + 1] - 1824) + 46

\* Track 151, the last with a word in the tag, was decoded after the boot track
\* and got its length from that word.
ZaTotalBitsFromTagWitness ==
    /\ pc = "ego_done"
    /\ enc.type = "za_zelazna_brama"
    /\ result.ret = "block"
    /\ tag.set
    /\ enc.tracknr = 151
    /\ ti.total_bits = 100900 + (probe.first[152] - 1824) + 46

\* C10: after a successful boot decode made with no tag present, the tag
\* holds exactly 152 words, word j being the big-endian 16-bit value at bytes
\* 4+2j and 5+2j of the decoded image, and its declared length is 304 bytes.
BootTagLayout ==
    (pc = "ego_done" /\ enc.type = "za_zelazna_brama_boot" /\ result.ret = "block"
        /\ ~enc.had_tag)
        => /\ tag.set
           /\ tag.len = 304
           /\ Len(tag.protection) = 152
           /\ \A j \in 0..151 :
                 tag.protection[j + 1]
                    = (result.dat[4 + 2 * j + 1] * 256) + result.dat[5 + 2 * j + 1]

\* A first boot decode succeeded and created the tag.
BootTagLayoutWitness ==
    /\ pc = "ego_done"
    /\ enc.type = "za_zelazna_brama_boot"
    /\ result.ret = "block"
    /\ ~enc.had_tag
    /\ tag.set
    /\ TagWords = boot_dat(result.dat)

\* The sectors whose sync, index byte and data the medium left as written.
IntactSectors(m) == (0..10) \ (m.zero \cup m.tail \cup m.index)

\* C11 as stated: after a candidate sync fails validation the search resumes
\* one cell after that sync (the stream stands at the end of the failed sync),
\* so every well-formed sector or block whose sync begins after the failed
\* sync is recognised.
ResumeOneCellAfterSync ==
    /\ (pc = "cl_scan" /\ dec.event \in {"bad_index", "bad_sig", "bad_lfsr"})
          => s.pos = dec.idx_off + 16
    /\ (pc = "ego_scan" /\ dec.event = "bad_sum") => s.pos = dec.sync_pos
    /\ (pc = "cl_post" /\ dec.event \in {"eos", "full"} /\ ti.type = "copylock"
            /\ PayloadSeed # 0)
          => IntactSectors(s.media) \subseteq ti.valid_sectors
    /\ (pc = "ego_done" /\ enc.type \in EgoTypes
            /\ s.media.kind \in {"clean", "false_sync", "two_rev"})
          => result = Block(EgoPayloadWritten)

\* C11 amended: after a candidate sync fails validation the search resumes at
\* the cell after the last cell read for that candidate: 16 cells past the
\* sync after an index-byte failure, 16 + 8192 cells past it after a signature
\* or LFSR failure, and past the data and checksum words (64 * (len/4 + 1)
\* cells) after an ego checksum failure.  A well-formed sector or block whose
\* sync begins after those cells is still recognised.
ResumeAfterCellsRead ==
    /\ (pc = "cl_scan" /\ dec.event = "bad_index") => s.pos = dec.idx_off + 16 + 16
    /\ (pc = "cl_scan" /\ dec.event \in {"bad_sig", "bad_lfsr", "zero_seed"})
          => s.pos = dec.idx_off + 16 + 16 + (2 * 512 * 8)
    /\ (pc = "ego_scan" /\ dec.event = "bad_sum")
          => s.pos = dec.sync_pos + 64 * ((ti.len \div 4) + 1)
    /\ (pc = "cl_post" /\ dec.event \in {"eos", "full"} /\ PayloadSeed # 0)
          => (IntactSectors(s.media) \ s.media.dup) \subseteq ti.valid_sectors
    /\ (pc = "ego_done" /\ enc.type \in EgoTypes /\ s.media.kind \in {"clean", "two_rev"})
          => result = Block(EgoPayloadWritten)

\* On a new-variant track the doubled sync of sector 0 failed the index test,
\* the read of the index byte took the cells of the true sync, and the ten
\* sectors after it were recognised.
ResumeAfterCellsReadWitness ==
    /\ pc = "cl_post"
    /\ ti.type = "copylock"
    /\ s.media.dup = {0}
    /\ s.media.cut = <<>>
    /\ ti.valid_sectors = 1..10

\* The static protection table of a track type (none for the two types that
\* have no table).
StaticTable(type) ==
    IF type \in {"abc_chemii_a", "abc_chemii_b"} THEN abc_chem_protection
    ELSE IF type \in {"abc_chemii_timsoft_a", "abc_chemii_timsoft_b"}
         THEN abc_chem_timsoft_protection
    ELSE IF type = "inferior" THEN inferior_protection
    ELSE <<>>

\* The cell at which the sync of the block that validated begins: behind the
\* leading gap, and for two revolutions behind the first revolution as well.
ValidatedSyncCell ==
    IF s.media.kind = "two_rev"
    THEN 16 * (2 * LeadWords + 1 + 4 * ((ti.len \div 4) + 1))
    ELSE 16 * LeadWords

\* C12: after a successful decode of an abc_chemii_a/b, abc_chemii_timsoft_a/b
\* or inferior track n (0 <= n < 160), total_bits = 100900 + (T[n] - 0xA15)
\* with T the static table of the variant and data_bitoff = 100900; for
\* behind_the_iron_gate total_bits keeps its value and data_bitoff is
\* index_offset_bc - 15 at the sync of the block whose checksum matched.
EgoStaticBitLength ==
    (pc = "ego_done" /\ enc.type \in EgoTypes /\ result.ret = "block")
        => /\ StaticTable(enc.type) # <<>>
                 => /\ Len(StaticTable(enc.type)) = 160
                    /\ ti.total_bits
                          = 100900 + (StaticTable(enc.type)[enc.tracknr + 1] - 2581)
                    /\ ti.data_bitoff = Pair32(100900)
                    /\ \A n \in 0..159 :
                          ego_set_protection(init_track_info(enc.type), n, tag, 0).total_bits
                             = 100900 + (StaticTable(enc.type)[n + 1] - 2581)
           /\ enc.type = "behind_the_iron_gate"
                 => /\ ti.total_bits = init_track_info(enc.type).total_bits
                    /\ dec.sync_pos - 16 = ValidatedSyncCell
                    /\ ti.data_bitoff = Pair32((dec.sync_pos - 1) - 15)

\* Track 159 of an Inferior disk, whose table entry is 0, was decoded.
EgoStaticBitLengthWitness ==
    /\ pc = "ego_done"
    /\ enc.type = "inferior"
    /\ enc.tracknr = 159
    /\ result.ret = "block"
    /\ ti.total_bits = 98319
    /\ ti.data_bitoff = Pair32(100900)

\* The sectors the scan decoded from the stream.
Decoded == {dec.decoded[k] : k \in 1..Len(dec.decoded)}

\* Whether a timing warning of a kind was raised for a sector.
TimingWarned(kind, sec) ==
    \E k \in 1..Len(warns) : warns[k] = [kind |-> kind, n |-> sec]

\* C13: with d the percentage deviation of a decoded sector's latency from
\* sector 5's latency (from 514*8*2*2000 when sector 5 was not decoded), held
\* in the float d of line 179, a warning is raised for sector 4 iff d > -4,
\* for sector 6 iff d < 4 and for any other decoded sector iff d < -2 or
\* d > 2; no timing warning is raised for a sector that was not decoded.
TimingWarnings ==
    (pc = "cl_done" /\ result.ret = "block")
        => LET lat5 == IF 5 \in Decoded THEN dec.latency[5] ELSE 514 * 8 * 2 * 2000
           IN /\ \A k \in 1..Len(warns) :
                    warns[k].kind \in {"short", "long", "normal"}
                       => warns[k].n \in Decoded
              /\ \A sec \in Decoded :
                    LET lat == dec.latency[sec]
                    IN /\ TimingWarned("short", sec)
                             <=> (sec = 4 /\ d_gt(lat, lat5, -4))
                       /\ TimingWarned("long", sec)
                             <=> (sec = 6 /\ d_lt(lat, lat5, 4))
                       /\ TimingWarned("normal", sec)
                             <=> (sec \notin {4, 6}
                                    /\ (d_lt(lat, lat5, -2) \/ d_gt(lat, lat5, 2)))

\* Sector 5 was not decoded and sector 4 was one nanosecond less than 4%
\* shorter than 514*8*2*2000: the short-sector warning was raised, and none
\* for the stale latency of an undecoded sector.
TimingWarningsWitness ==
    /\ pc = "cl_done"
    /\ Decoded = {4}
    /\ dec.latency[4] = 16448000 - 657920 + 1
    /\ dec.latency[0] = 20000000
    /\ TimingWarned("short", 4)
    /\ ~TimingWarned("normal", 0)

\* A step of either scan loop leaves the loop or moves the stream forward,
\* never beyond its end.
ScanConsumes ==
    pc \in {"cl_scan", "ego_scan"}
        => /\ s'.pos <= s.len
           /\ s'.pos > s.pos \/ pc' \notin {"cl_scan", "ego_scan"}

\* With all sectors valid the CopyLock loop is left at its next condition
\* test: at most the one cell of stream_next_bit is taken, no sector is added.
ScanStopsWhenFull ==
    (pc = "cl_scan" /\ dec.nr_valid_blocks = ti.nr_sectors)
        => /\ pc' = "cl_post"
           /\ dec'.event \in {"full", "eos"}
           /\ s'.pos <= s.pos + 1
           /\ ti' = ti
           /\ dec'.decoded = dec.decoded
           /\ dec'.iters = dec.iters + 1

\* C14: both decoders terminate on every finite stream: every evaluation of a
\* loop condition but the last has consumed at least one cell, so there are
\* at most len + 1 of them, and every scan reaches its return; the CopyLock
\* loop is left as soon as nr_valid_blocks is 11, with no header or body read
\* after that.
DecodersTerminate ==
    /\ [](pc \in {"cl_scan", "cl_post", "ego_scan", "ego_good"}
             => dec.iters <= s.pos + 1 /\ s.pos <= s.len)
    /\ [][ScanConsumes /\ ScanStopsWhenFull]_vars
    /\ (pc = "cl_scan") ~> (pc = "cl_done")
    /\ (pc = "ego_scan") ~> (pc = "ego_done")

\* All 11 sectors were validated and the loop was left at once, with cells of
\* the stream still unread.
DecodersTerminateWitness ==
    /\ pc = "cl_post"
    /\ dec.event = "full"
    /\ dec.nr_valid_blocks = 11
    /\ dec.iters > 11
    /\ s.pos < s.len

\* The data byte at offset i of sector sec in the track buffer.
EncodedByte(sec, i) == mfm_decode_cells(tbuf.cells[(sec * 562) + 5 + i + 1], 8)

\* C15: in the encoded track the LFSR stream begins at the seed and runs on
\* from sector to sector: the state of the first LFSR byte of sector k+1 is
\* the forward step of the state of the last LFSR byte of sector k, also from
\* sector 5 to byte 16 of sector 6 in the new variant; in the old variant
\* exactly 16 states are skipped there.
LfsrStreamContinuous ==
    pc \in {"cl_read_raw", "cl_media"}
        => /\ Len(enc.first) = enc.sec /\ Len(enc.last) = enc.sec
           /\ enc.sec > 0 => enc.first[1] = enc.lfsr_seed
           /\ \A k \in 0..(enc.sec - 1) :
                 /\ EncodedByte(k, IF k = 6 THEN 16 ELSE 0)
                       = lfsr_state_byte(enc.first[k + 1])
                 /\ EncodedByte(k, 511) = lfsr_state_byte(enc.last[k + 1])
                 /\ enc.last[k + 1]
                       = lfsr_walk(enc.first[k + 1], IF k = 6 THEN 495 ELSE 511, TRUE)
           /\ \A k \in 0..(enc.sec - 2) :
                 enc.first[k + 2]
                   = lfsr_walk(enc.last[k + 1],
                               IF ti.type = "copylock_old" /\ k = 5 THEN 17 ELSE 1, TRUE)

\* An old-variant track is complete; the stream skipped from sector 5 to
\* sector 6 and ran on from sector 6 to sector 7.
LfsrStreamContinuousWitness ==
    /\ pc = "cl_media"
    /\ ti.type = "copylock_old"
    /\ enc.sec = 11
    /\ enc.first[7] = lfsr_walk(enc.last[6], 17, TRUE)
    /\ enc.first[7] # lfsr_next_state(enc.last[6])
    /\ enc.first[8] = lfsr_next_state(enc.last[7])

\* The bytes of n successive LFSR states from x on.
RECURSIVE LfsrBytes(_, _)
LfsrBytes(x, n) ==
    IF n = 0 THEN <<>>
    ELSE IF n = 1 THEN <<lfsr_state_byte(x)>>
    ELSE LfsrBytes(x, n \div 2) \o LfsrBytes(lfsr_walk(x, n \div 2, TRUE), n - (n \div 2))

\* The data bytes i .. i+n-1 of sector sec in the track buffer.
EncodedBytes(sec, i, n) == [j \in 1..n |-> EncodedByte(sec, i + j - 1)]

\* Sector 6 of the track buffer begins with the signature, and the LFSR
\* stream of the sector starts at byte 16.
Sec6Signed ==
    /\ EncodedBytes(6, 0, 16) = sec6_sig
    /\ EncodedBytes(6, 16, 496)
         = LfsrBytes(lfsr_seek(ti.type, enc.lfsr_seed, 0, 6), 496)

\* Sector 6 of the track buffer holds 512 bytes of the LFSR stream.
Sec6Unsigned ==
    EncodedBytes(6, 0, 512) = LfsrBytes(lfsr_seek(ti.type, enc.lfsr_seed, 0, 6), 512)

\* The signature is emitted at sector 6 offset 0 for the new variant only,
\* followed by LFSR bytes from position 16; in the old variant sector 6 has no
\* signature and its 512 data bytes are LFSR bytes.
SignatureNewVariantOnly ==
    (pc \in {"cl_read_raw", "cl_media"} /\ enc.sec > 6)
        => IF ti.type = "copylock" THEN Sec6Signed ELSE Sec6Unsigned

\* C16: the signature is emitted at sector 6 offset 0 in both variants,
\* followed by 496 LFSR bytes from position 16 on; no variant has 512 LFSR
\* bytes in sector 6.
SignatureBothVariants ==
    (pc \in {"cl_read_raw", "cl_media"} /\ enc.sec > 6)
        => Sec6Signed /\ ~Sec6Unsigned

\* An old-variant track whose sector 6 was emitted with the signature.
SignatureBothVariantsWitness ==
    /\ pc = "cl_media"
    /\ ti.type = "copylock_old"
    /\ EncodedBytes(6, 0, 16) = sec6_sig
    /\ EncodedByte(6, 16) = lfsr_state_byte(enc.first[7])

\* C17: for a 23-bit state x, the value (b_0 << 15) | (b_8 << 7) | (b_16 >> 1)
\* taken from the bytes b_k = lfsr_state_byte(lfsr_next_state^k(x)) is x.
SeedSynthesisInverts ==
    \A i \in 1..(Len(probe) - 1) :
        probe[i + 1].op = "synth" => probe[i + 1].val = probe[i].val

\* The state with all 23 bits set was stepped forward and the result was
\* recovered from its bytes.
SeedSynthesisInvertsWitness ==
    /\ Len(probe) = 3
    /\ probe[1].val = 8388607
    /\ probe[2].op = "next"
    /\ probe[3].op = "synth"
    /\ probe[3].val = probe[2].val
    /\ probe[3].val # probe[1].val

\* The sync word that selects a sector: sync_list[sec], or in the old variant
\* the low 16 cells of mfm_encode_word(0xb0 + sec) | (1 << 13).
SyncOf(type, sec) ==
    IF type = "copylock" THEN sync_list[sec + 1]
    ELSE SetBit(mfm_encode_word(176 + sec)[2], 13)

\* The data bytes i .. i+n-1 of the sector whose sync begins at cell p of the
\* stream.
StreamBytes(p, i, n) ==
    [j \in 1..n |-> mfm_decode_cells(Window16(s.cells, p + 32 + 16 * (i + j - 1)), 8)]

\* The sector sec read at cell p agrees with the seed: sync, index byte,
\* signature in sector 6, and the LFSR stream from lfsr_seek(seed, 0, sec).
SectorAgrees(type, seed, sec, p) ==
    LET i == IF sec = 6 THEN 16 ELSE 0
    IN /\ Window16(s.cells, p) = SyncOf(type, sec)
       /\ mfm_decode_cells(Window16(s.cells, p + 16), 8) = sec
       /\ sec = 6 => StreamBytes(p, 0, 16) = sec6_sig
       /\ StreamBytes(p, i, 512 - i) = LfsrBytes(lfsr_seek(type, seed, 0, sec), 512 - i)

\* C18: every sector the CopyLock scan has marked valid agrees with the one
\* track seed the scan holds, the first validated sector (whose data gave the
\* seed) as well as every later one.
ValidSectorsAgreeWithSeed ==
    pc \in {"cl_scan", "cl_post"}
        => /\ Len(dec.sync_at) = Len(dec.decoded)
           /\ ti.valid_sectors = {dec.decoded[k] : k \in 1..Len(dec.decoded)}
           /\ \A k \in 1..Len(dec.decoded) :
                 SectorAgrees(ti.type, dec.lfsr_seed, dec.decoded[k], dec.sync_at[k])

\* The scan ended with sector 0 rejected: the seed came from sector 1 and the
\* sectors after it were validated against it.
ValidSectorsAgreeWithSeedWitness ==
    /\ pc = "cl_post"
    /\ Len(dec.decoded) = 10
    /\ dec.decoded[1] = 1
    /\ dec.decoded[6] = 6
    /\ dec.lfsr_seed = enc.lfsr_seed
    /\ dec.lfsr_seed # 0

\* The cell of the stream at which the encoded track begins.
TrackStart == 16 * LeadWords

\* C19: copylock_read_raw emits the sectors (514+48)*16 cells apart, the sync
\* of sector 0 beginning 48 cells after the track start; and whatever the
\* sectors validated from a stream in which the track starts at cell B, the
\* data_bitoff the decoder returns is B.
DataBitoffIsTrackStart ==
    /\ pc = "cl_media"
         => /\ Len(tbuf.cells) * 16 = 11 * ((514 + 48) * 16)
            /\ \A k \in 0..10 :
                  tbuf.cells[((k * ((514 + 48) * 16) + 48) \div 16) + 1] = SyncOf(ti.type, k)
    /\ (pc = "cl_done" /\ result.ret = "block")
         => /\ ti.data_bitoff = Pair32(TrackStart)
            /\ dec.sync_at[1] = TrackStart + dec.decoded[1] * ((514 + 48) * 16) + 48

\* Only sector 7 was validated, and the offset returned is the track start.
DataBitoffIsTrackStartWitness ==
    /\ pc = "cl_done"
    /\ result.ret = "block"
    /\ dec.decoded = <<7>>
    /\ dec.least_block = 7
    /\ ti.data_bitoff = Pair32(TrackStart)

\* The speed of the w-th word of a track buffer, from its runs (from run k).
RECURSIVE SpeedOfWord(_, _, _)
SpeedOfWord(runs, k, w) ==
    IF w <= runs[k][2] THEN runs[k][1] ELSE SpeedOfWord(runs, k + 1, w - runs[k][2])

\* Words of a track buffer emitted at a speed, and the sum of the speeds of
\* all its words.
WordsAt(runs, speed) ==
    LET RECURSIVE cnt(_)
        cnt(k) == IF k > Len(runs) THEN 0
                  ELSE (IF runs[k][1] = speed THEN runs[k][2] ELSE 0) + cnt(k + 1)
    IN cnt(1)

SpeedSum(runs) ==
    LET RECURSIVE sum(_)
        sum(k) == IF k > Len(runs) THEN 0 ELSE runs[k][1] * runs[k][2] + sum(k + 1)
    IN sum(1)

\* The speed the schedule gives sector k: 95% for sector 4, 105% for sector
\* 6, nominal otherwise (also for what follows sector 10).
SectorSpeed(k) ==
    IF k = 4 THEN (95 * SPEED_AVG) \div 100
    ELSE IF k = 6 THEN (105 * SPEED_AVG) \div 100
    ELSE SPEED_AVG

\* C20: every cell of sector k, and of the gap before it, is emitted at the
\* speed of sector k; the cells at 95% are as many as those at 105%, and the
\* speeds of all cells of the track add up to the cell count times SPEED_AVG.
SpeedSchedule ==
    pc \in {"cl_read_raw", "cl_media"}
        => /\ \A w \in 1..Len(tbuf.cells) :
                 LET k == (w - 1) \div 562
                     o == (w - 1) % 562
                 IN SpeedOfWord(tbuf.runs, 1, w) = SectorSpeed(IF o < 518 THEN k ELSE k + 1)
           /\ pc = "cl_media"
                 => /\ WordsAt(tbuf.runs, SectorSpeed(4)) = WordsAt(tbuf.runs, SectorSpeed(6))
                    /\ WordsAt(tbuf.runs, SectorSpeed(4)) = 562
                    /\ 16 * SpeedSum(tbuf.runs) = (16 * Len(tbuf.cells)) * SPEED_AVG

\* A whole track was emitted: sector 3 and sector 4 with the gap between
\* them at the speed of sector 4, the gap after sector 4 at nominal speed.
SpeedScheduleWitness ==
    /\ pc = "cl_media"
    /\ Len(tbuf.cells) = 11 * 562
    /\ SpeedOfWord(tbuf.runs, 1, 3 * 562 + 518) = SPEED_AVG
    /\ SpeedOfWord(tbuf.runs, 1, 3 * 562 + 519) = SectorSpeed(4)
    /\ SpeedOfWord(tbuf.runs, 1, 4 * 562 + 518) = SectorSpeed(4)
    /\ SpeedOfWord(tbuf.runs, 1, 4 * 562 + 519) = SPEED_AVG
    /\ SectorSpeed(4) < SPEED_AVG

\* The words of a track buffer whose speed differs from that of the word
\* before them.
SpeedChanges ==
    {w \in 2..Len(tbuf.cells) :
        SpeedOfWord(tbuf.runs, 1, w) # SpeedOfWord(tbuf.runs, 1, w - 1)}

\* The first word of sector k, and the first word of the gap after it.
SectorStart(k) == k * 562 + 1

GapStart(k) == k * 562 + 518 + 1

\* The speed changes for sectors 4 and 6 at the end of the preceding gap:
\* the gaps after sectors 3 and 5 are at nominal speed and the 95% / 105%
\* speed begins with the first cell of sector 4 / sector 6.
SpeedChangesAtSectorStart ==
    pc = "cl_media"
        => /\ \A k \in {3, 5} : \A w \in GapStart(k)..(SectorStart(k + 1) - 1) :
                 SpeedOfWord(tbuf.runs, 1, w) = SPEED_AVG
           /\ SectorStart(4) \in SpeedChanges
           /\ SectorStart(6) \in SpeedChanges

\* C21: the speed changes at the start of the gap before sectors 4 and 6 and
\* goes back to nominal at the start of the gap after them: the gaps after
\* sectors 3 and 5 are at 95% / 105%, those after sectors 4 and 6 nominal, and
\* the speed changes nowhere else, in particular not at the first cell of a
\* sector.
SpeedChangesAtGapStart ==
    pc = "cl_media"
        => /\ SpeedChanges = {GapStart(3), GapStart(4), GapStart(5), GapStart(6)}
           /\ SpeedOfWord(tbuf.runs, 1, GapStart(3)) = (95 * SPEED_AVG) \div 100
           /\ SpeedOfWord(tbuf.runs, 1, GapStart(4)) = SPEED_AVG
           /\ SpeedOfWord(tbuf.runs, 1, GapStart(5)) = (105 * SPEED_AVG) \div 100
           /\ SpeedOfWord(tbuf.runs, 1, GapStart(6)) = SPEED_AVG

\* A whole track was emitted; the last word of sector 5 is nominal, the gap
\* after it and sector 6 are at 105%, the gap after sector 6 is nominal.
SpeedChangesAtGapStartWitness ==
    /\ pc = "cl_media"
    /\ Len(tbuf.cells) = 11 * 562
    /\ SpeedOfWord(tbuf.runs, 1, GapStart(5) - 1) = SPEED_AVG
    /\ SpeedOfWord(tbuf.runs, 1, GapStart(5)) > SPEED_AVG
    /\ SpeedOfWord(tbuf.runs, 1, SectorStart(6)) > SPEED_AVG
    /\ SpeedOfWord(tbuf.runs, 1, GapStart(6) - 1) > SPEED_AVG
    /\ SpeedOfWord(tbuf.runs, 1, GapStart(6)) = SPEED_AVG

\* The LFSR bytes of a sector in the stream: 496 in sector 6, 528 positions
\* from sector 5 to sector 6 in the old variant, 512 otherwise.
SectorSteps(type, sec) ==
    IF sec = 6 THEN 496
    ELSE IF sec = 5 /\ type = "copylock_old" THEN 528
    ELSE 512

\* C22: for both variants and sectors a, b, c in 0..11, seeking from a to b
\* and back to a returns the state sought from, seeking from a to b and on to
\* c is seeking from a to c, and a seek over one sector walks SectorSteps of
\* that sector, forwards and backwards alike.
LfsrSeekInvertible ==
    pc = "lfsr_seek"
        => /\ \A i \in 1..Len(probe) : probe[i].val \in 0..8388607
           /\ Len(probe) >= 2
                 => LET a == probe[2].from
                        b == probe[2].to
                    IN /\ b = a + 1
                            => probe[2].val
                                 = lfsr_walk(probe[1].val, SectorSteps(ti.type, a), TRUE)
                       /\ b = a - 1
                            => probe[2].val
                                 = lfsr_walk(probe[1].val, SectorSteps(ti.type, b), FALSE)
           /\ Len(probe) = 3
                 => /\ probe[3].from = probe[2].to
                    /\ probe[3].val
                         = lfsr_seek(ti.type, probe[1].val, probe[2].from, probe[3].to)
                    /\ probe[3].to = probe[2].from => probe[3].val = probe[1].val

\* In the old variant a seed was sought from sector 7 back to sector 4, over
\* sectors 6 and 5, and forward to sector 7 again.
LfsrSeekInvertibleWitness ==
    /\ pc = "lfsr_seek"
    /\ ti.type = "copylock_old"
    /\ Len(probe) = 3
    /\ probe[1].val = SeedOf(1)
    /\ probe[2].from = 7 /\ probe[2].to = 4
    /\ probe[3].to = 7
    /\ probe[2].val = lfsr_walk(SeedOf(1), 496 + 528 + 512, FALSE)
    /\ probe[2].val # probe[1].val
    /\ probe[3].val = probe[1].val

\* What the scan has done to the track info: the sectors marked valid are
\* those validated, each once, nr_valid_blocks counts them, data_bitoff is
\* that of the lowest of them or untouched, total_bits is untouched.
ScanBookkeeping ==
    pc \in {"cl_scan", "cl_post"}
        => /\ Len(dec.sync_at) = Len(dec.decoded)
           /\ \A j, k \in 1..Len(dec.decoded) : dec.decoded[j] = dec.decoded[k] => j = k
           /\ ti.valid_sectors = {dec.decoded[k] : k \in 1..Len(dec.decoded)}
           /\ ti.valid_sectors \subseteq 0..10
           /\ dec.nr_valid_blocks = Cardinality(ti.valid_sectors)
           /\ dec.nr_valid_blocks = Len(dec.decoded)
           /\ dec.nr_valid_blocks \in 0..11
           /\ ti.total_bits = DefaultTotalBits
           /\ IF dec.decoded = <<>>
              THEN ti.data_bitoff = Pair32(DefaultDataBitoff)
              ELSE \E k \in 1..Len(dec.decoded) :
                      /\ dec.decoded[k] = dec.least_block
                      /\ \A j \in 1..Len(dec.decoded) : dec.decoded[j] >= dec.least_block
                      /\ ti.data_bitoff = Pair32(dec.sync_at[k])

\* A step of the scan that writes data_bitoff marks a sector valid, one that
\* was not valid, and counts it.
BitoffWithValid ==
    (pc = "cl_scan" /\ ti'.data_bitoff # ti.data_bitoff)
        => /\ ti.valid_sectors \subseteq ti'.valid_sectors
           /\ Cardinality(ti'.valid_sectors) = Cardinality(ti.valid_sectors) + 1
           /\ dec'.nr_valid_blocks = dec.nr_valid_blocks + 1

\* A decode that returned NULL has left the track info as it found it.
NullLeavesTrackInfo ==
    (pc = "cl_done" /\ result = Null)
        => /\ ti.valid_sectors = {}
           /\ ti.data_bitoff = Pair32(DefaultDataBitoff)
           /\ ti.total_bits = DefaultTotalBits

\* C23: during the CopyLock scan, from an empty validity bitmap, each sector
\* is marked valid at most once and nr_valid_blocks is the number of sectors
\* marked valid (0..11); data_bitoff is written only together with marking a
\* sector valid, so a decode that returns NULL has marked no sector valid and
\* left data_bitoff and total_bits unchanged.
ValidityBitmap ==
    /\ [](ScanBookkeeping /\ NullLeavesTrackInfo)
    /\ [][BitoffWithValid]_vars

\* Of two revolutions the first gave ten sectors; in the second the syncs of
\* sectors 0, 1 and 2 were passed over and sector 3 was marked valid last.
ValidityBitmapWitness ==
    /\ pc = "cl_post"
    /\ s.media.again
    /\ dec.decoded = <<0, 1, 2, 4, 5, 6, 7, 8, 9, 10, 3>>
    /\ dec.nr_valid_blocks = 11
    /\ dec.sync_at[11] > dec.sync_at[10]
    /\ ti.data_bitoff = Pair32(dec.sync_at[1])

\* The static table that ego_write_raw reads for a track type, <<>> for the
\* types that read none.
StaticTableOf(type) ==
    IF type \in {"abc_chemii_a", "abc_chemii_b"} THEN abc_chem_protection
    ELSE IF type \in {"abc_chemii_timsoft_a", "abc_chemii_timsoft_b"}
         THEN abc_chem_timsoft_protection
    ELSE IF type = "inferior" THEN inferior_protection
    ELSE <<>>

\* C24: every protection-table read of ego_write_raw is within bounds: a
\* za_zelazna_brama decode that finds the tag reads its entry tracknr only
\* for tracknr < 152, and a decode of a type with a static table (160
\* entries) reads it only for tracknr < 160.
ProtectionReadsInBounds ==
    (pc = "ego_done" /\ result.ret = "block")
        => /\ (enc.type = "za_zelazna_brama" /\ tag.set) => enc.tracknr < 152
           /\ StaticTableOf(enc.type) # <<>>
                 => Len(StaticTableOf(enc.type)) = 160 /\ enc.tracknr < 160

\* Track 1 of Za Zelazna Brama was decoded with the tag present and its
\* length came from entry 1 of the tag.
ProtectionReadsInBoundsWitness ==
    /\ pc = "ego_done"
    /\ enc.type = "za_zelazna_brama"
    /\ result.ret = "block"
    /\ tag.set
    /\ enc.tracknr = 1
    /\ ti.total_bits = 100900 + (tag.protection[2] - 1824) + 46

=============================================================================
